---- MODULE Spec2Model ----
(***************************************************************************)
(* Model of the nitric CLI core: the per-language Runtime variants         *)
(* (golang, python, the javascript recipe generator), the Launch Options   *)
(* they produce, the podman Container Engine variant, the stack helpers,   *)
(* the root command's configuration defaults and aliases, and the steps of *)
(* the aws, azure and gcp providers that deploy a function.                *)
(*                                                                         *)
(* Strings whose characters the code inspects (paths, subprocess output)   *)
(* are sequences of one-character strings; Str renders such a sequence as  *)
(* a TLA+ string, and results the code only concatenates are TLA+ strings. *)
(***************************************************************************)
EXTENDS Integers, Sequences, FiniteSets, TLC

(***************************************************************************)
(* Bounds of the model.                                                    *)
(***************************************************************************)
MaxHandlerLen == 4
MaxCtxLen == 2
MaxRecipeHandlerLen == 2
MaxIgnoreCalls == 6
MaxProviderCalls == 2
MaxOutput == 3
MaxRuns == 2
MaxNameLen == 24

(***************************************************************************)
(* Strings.                                                                *)
(***************************************************************************)
RECURSIVE Str(_)
Str(s) == IF s = <<>> THEN "" ELSE Head(s) \o Str(Tail(s))

RECURSIVE SeqsUpTo(_, _)
SeqsUpTo(A, n) ==
  IF n = 0 THEN {<<>>}
  ELSE LET shorter == SeqsUpTo(A, n - 1)
       IN  shorter \cup {Append(s, c) : s \in {t \in shorter : Len(t) = n - 1}, c \in A}

\* strings.HasPrefix
HasPrefix(s, prefix) ==
  /\ Len(prefix) <= Len(s)
  /\ SubSeq(s, 1, Len(prefix)) = prefix

\* strings.Contains
Contains(s, substr) ==
  \E i \in 0..(Len(s) - Len(substr)) : SubSeq(s, i + 1, i + Len(substr)) = substr

(***************************************************************************)
(* path/filepath of the unix build: Separator is '/', there are no volume  *)
(* names.                                                                  *)
(***************************************************************************)
Separator == "/"

\* The elements of s between separators: Split(<<>>) = << <<>> >>.
RECURSIVE Split(_)
Split(s) ==
  IF \A i \in 1..Len(s) : s[i] # Separator THEN <<s>>
  ELSE LET i == CHOOSE j \in 1..Len(s) :
                   s[j] = Separator /\ \A k \in 1..(j - 1) : s[k] # Separator
       IN  <<SubSeq(s, 1, i - 1)>> \o Split(SubSeq(s, i + 1, Len(s)))

RECURSIVE JoinSep(_)
JoinSep(elems) ==
  IF elems = <<>> THEN <<>>
  ELSE IF Len(elems) = 1 THEN elems[1]
  ELSE elems[1] \o <<Separator>> \o JoinSep(Tail(elems))

Dot == <<".">>
DotDot == <<".", ".">>

IsAbs(path) == HasPrefix(path, <<Separator>>)

\* Clean's element loop: out is the stack of elements kept so far.
RECURSIVE CleanElems(_, _, _)
CleanElems(elems, out, rooted) ==
  IF elems = <<>> THEN out
  ELSE LET e == Head(elems)
           rest == Tail(elems)
       IN  IF e = <<>> \/ e = Dot THEN CleanElems(rest, out, rooted)
           ELSE IF e = DotDot
                THEN IF out # <<>> /\ out[Len(out)] # DotDot
                       THEN CleanElems(rest, SubSeq(out, 1, Len(out) - 1), rooted)
                     ELSE IF rooted THEN CleanElems(rest, out, rooted)
                     ELSE CleanElems(rest, Append(out, e), rooted)
           ELSE CleanElems(rest, Append(out, e), rooted)

Clean(path) ==
  IF path = <<>> THEN Dot
  ELSE LET rooted == IsAbs(path)
           out == CleanElems(Split(path), <<>>, rooted)
       IN  IF rooted THEN <<Separator>> \o JoinSep(out)
           ELSE IF out = <<>> THEN Dot
           ELSE JoinSep(out)

\* filepath.Join: empty leading elements are dropped, the rest joined and cleaned.
RECURSIVE Join(_)
Join(elem) ==
  IF elem = <<>> THEN <<>>
  ELSE IF Head(elem) # <<>> THEN Clean(JoinSep(elem))
  ELSE Join(Tail(elem))

\* Index of the last separator of path, 0 when there is none.
LastSep(path) ==
  IF \A i \in 1..Len(path) : path[i] # Separator THEN 0
  ELSE CHOOSE i \in 1..Len(path) :
         path[i] = Separator /\ \A k \in (i + 1)..Len(path) : path[k] # Separator

Dir(path) == Clean(SubSeq(path, 1, LastSep(path)))

RECURSIVE StripTrailingSeps(_)
StripTrailingSeps(path) ==
  IF path # <<>> /\ path[Len(path)] = Separator
    THEN StripTrailingSeps(SubSeq(path, 1, Len(path) - 1))
  ELSE path

Base(path) ==
  IF path = <<>> THEN Dot
  ELSE LET p == StripTrailingSeps(path)
           q == SubSeq(p, LastSep(p) + 1, Len(p))
       IN  IF q = <<>> THEN <<Separator>> ELSE q

\* filepath.ToSlash: every Separator replaced by '/'.
ToSlash(path) == [i \in 1..Len(path) |-> IF path[i] = Separator THEN "/" ELSE path[i]]

\* The elements Rel walks over: none for the empty path, one (empty) for "/".
RelElems(p) ==
  IF p = <<>> THEN <<>>
  ELSE IF p = <<Separator>> THEN << <<>> >>
  ELSE Split(p)

RECURSIVE CommonLen(_, _)
CommonLen(be, te) ==
  IF be = <<>> \/ te = <<>> \/ Head(be) # Head(te) THEN 0
  ELSE 1 + CommonLen(Tail(be), Tail(te))

\* filepath.Rel: [err, val].
Rel(basepath, targpath) ==
  LET base0 == Clean(basepath)
      targ == Clean(targpath)
      base == IF base0 = Dot THEN <<>> ELSE base0
      be == RelElems(base)
      te == RelElems(targ)
      k == CommonLen(be, te)
      restT == SubSeq(te, k + 1, Len(te))
      ups == [i \in 1..(Len(be) - k) |-> DotDot]
  IN  IF targ = base0 THEN [err |-> FALSE, val |-> Dot]
      ELSE IF IsAbs(base) # IsAbs(targ) THEN [err |-> TRUE, val |-> <<>>]
      ELSE IF k < Len(be) /\ k < Len(te) /\ be[k + 1] = DotDot
             THEN [err |-> TRUE, val |-> <<>>]
      ELSE IF k < Len(be) THEN [err |-> FALSE, val |-> JoinSep(ups \o restT)]
      ELSE [err |-> FALSE, val |-> JoinSep(restT)]

(***************************************************************************)
(* State.                                                                  *)
(*   variant, rte, handler  the Runtime instance (its type and fields)     *)
(*   runCtx                 the run context handed to the launch methods   *)
(*   goModule, goPath, cwd  what utils.GoModule(runCtx), utils.GoPath()    *)
(*                          and os.Getwd() answer in this environment      *)
(*   optsCollect, optsFn    what LaunchOptsForFunctionCollect and          *)
(*                          LaunchOptsForFunction returned                 *)
(*   nameRet                what ContainerName returned                    *)
(*   version, provider      the arguments of FunctionDockerfile            *)
(*   manifestPresent        whether the dependency manifest the recipe     *)
(*                          copies exists in the build context             *)
(*   newContainerFails      whether the Dockerfile builder refuses to      *)
(*                          create a container                             *)
(*   writeFails             whether the output writer reports an error     *)
(*   recipeProd, recipeDev  what FunctionDockerfile and                    *)
(*                          FunctionDockerfileForCodeAsConfig returned and *)
(*                          what reached the writer                        *)
(*   commonIgnore           the package-level baseline ignore slice        *)
(*   ignoreRets             the lists BuildIgnore returned, oldest first   *)
(*   host                   what the engine probes find on this machine    *)
(*   podmanRet              what newPodman returned                        *)
(*   lastCall               the last operation called on the podman        *)
(*                          engine: its arguments, what it returned, the   *)
(*                          calls it made on the embedded docker engine,   *)
(*                          what its collaborator (the embedded engine,    *)
(*                          the build subprocess, the log-file helper)     *)
(*                          answered, and the subprocess it ran            *)
(*   DefaultNitricVersion   the package variable of that name, the text of *)
(*                          the embedded version file                      *)
(*   providerCalls          the calls of NewProvider and ProviderFromFile  *)
(*                          made so far, oldest first: what each was given,*)
(*                          what it handed to the remote provider package  *)
(*                          and what it returned                           *)
(*   stack, function        the Stack and the Function the helpers are     *)
(*                          called on                                      *)
(*   stackRet               the last stack helper called and what it       *)
(*                          returned                                       *)
(*   aliases                the aliases of the configuration, by name      *)
(*   aliasString            the loop variable of that name in addAliases,  *)
(*                          which the Run functions of the alias commands  *)
(*                          read                                           *)
(*   aliasCommands          the alias commands added to the root command   *)
(*   osArgs                 os.Args                                        *)
(*   aliasRun               the alias command that ran, the arguments it   *)
(*                          was given and the arguments the root command   *)
(*                          was executed again with                        *)
(*   buildPc, buildRet      where one call of podman Build stands and what *)
(*                          it returned                                    *)
(*   subproc, exitStatus    the build subprocess and the status it exits   *)
(*                          with                                           *)
(*   startFails             whether cmd.Start reports an error             *)
(*   pendingOut             the chunks the subprocess has still to write   *)
(*                          to its standard output                         *)
(*   osPipe                 the chunks written and not yet read by the     *)
(*                          goroutine that copies them to the writer end   *)
(*                          of the io.Pipe                                 *)
(*   copier                 that goroutine, which cmd.Start runs because   *)
(*                          Stdout is not a file and cmd.Wait waits for    *)
(*   printer, printedOut    the goroutine running print(reader) and the    *)
(*                          chunks it has read                             *)
(*   proj                   the project the azure provider deploys         *)
(*   failAt                 the step of Deploy that reports an error, if   *)
(*                          any                                            *)
(*   deployRet              what Deploy did: the steps it ran, the error   *)
(*                          it returned or the panic that ended it         *)
(*   sc                     the stack configuration of the azure provider  *)
(*   azOrg, azAdminEmail    the provider's fields org and adminEmail       *)
(*   validateRet            what Validate did: the errors it pushed,       *)
(*                          whether it returned nil, or the panic that     *)
(*                          ended it                                       *)
(*   arn                    the Arn of the deployed lambda function        *)
(*   invokes                the invocations the health check has made,     *)
(*                          oldest first, each with the error Invoke       *)
(*                          returned                                       *)
(*   healthRet              what the health check returned                 *)
(*   userConfig             the configuration as the user set it, which    *)
(*                          viper held before ensureConfigDefaults first   *)
(*                          ran                                            *)
(*   viperConfig            the configuration viper holds                  *)
(*   configFile             the configuration in the configuration file    *)
(*   writeConfigFails       whether viper.WriteConfig reports an error     *)
(*   runWrote               for each run of ensureConfigDefaults, oldest   *)
(*                          first, whether it called viper.WriteConfig     *)
(*   runnerName             the name newCloudRunner is given               *)
(*   triggerTopics          the topic triggers of the function, in order   *)
(*   stackTopics            the topics of the stack that were deployed     *)
(*   runnerFailAt           the step of newCloudRunner that reports an     *)
(*                          error, if any                                  *)
(*   runnerRet              what newCloudRunner did: the resources it      *)
(*                          created, in order, and the error it returned   *)
(***************************************************************************)
VARIABLES variant, rte, handler, runCtx, goModule, goPath, cwd, optsCollect, optsFn,
          nameRet,
          version, provider, manifestPresent, newContainerFails, writeFails,
          recipeProd, recipeDev, commonIgnore, ignoreRets,
          host, podmanRet, lastCall,
          DefaultNitricVersion, providerCalls,
          stack, function, stackRet,
          aliases, aliasString, aliasCommands, osArgs, aliasRun,
          buildPc, buildRet, subproc, exitStatus, startFails, pendingOut, osPipe, copier,
          printer, printedOut,
          proj, failAt, deployRet, sc, azOrg, azAdminEmail, validateRet,
          arn, invokes, healthRet,
          userConfig, viperConfig, configFile, writeConfigFails, runWrote,
          runnerName, triggerTopics, stackTopics, runnerFailAt, runnerRet

launchVars == <<variant, rte, handler, runCtx, goModule, goPath, cwd, optsCollect, optsFn,
                nameRet>>
recipeVars == <<version, provider, manifestPresent, newContainerFails, writeFails,
                recipeProd, recipeDev>>
ignoreVars == <<commonIgnore, ignoreRets>>
engineVars == <<host, podmanRet, lastCall>>
providerVars == <<DefaultNitricVersion, providerCalls>>
coreVars == <<launchVars, recipeVars, ignoreVars, engineVars, providerVars>>
stackVars == <<stack, function, stackRet>>
aliasVars == <<aliases, aliasString, aliasCommands, osArgs, aliasRun>>
buildProcVars == <<buildPc, buildRet, subproc, exitStatus, startFails, pendingOut, osPipe,
                   copier, printer, printedOut>>
azureVars == <<proj, failAt, deployRet, sc, azOrg, azAdminEmail, validateRet>>
lambdaVars == <<arn, invokes, healthRet>>
configVars == <<userConfig, viperConfig, configFile, writeConfigFails, runWrote>>
gcpVars == <<runnerName, triggerTopics, stackTopics, runnerFailAt, runnerRet>>
laterVars == <<stackVars, aliasVars, buildProcVars, azureVars, lambdaVars, configVars, gcpVars>>
vars == <<coreVars, laterVars>>

PathChars == {Separator, ".", "a"}
Handlers == SeqsUpTo(PathChars, MaxHandlerLen)
RunCtxs == SeqsUpTo(PathChars, MaxCtxLen)

Ok(v) == [err |-> FALSE, val |-> v]
Failed == [err |-> TRUE, val |-> <<>>]

\* runtime.GOOS of the unix build
GOOS == "linux"

\* The path literals of the launch methods: "/go/src", "pkg", "/go/pkg", "/app"
GoSrcDir == <<"/", "g", "o", "/", "s", "r", "c">>
PkgDir == <<"p", "k", "g">>
GoPkgDir == <<"/", "g", "o", "/", "p", "k", "g">>
AppDir == <<"/", "a", "p", "p">>

\* LaunchOpts{} : the zero value
ZeroLaunchOpts ==
  [Image |-> "", Entrypoint |-> <<>>, Cmd |-> <<>>, TargetWD |-> <<>>, Mounts |-> <<>>]

BindMount(source, target) == [Type |-> "bind", Source |-> source, Target |-> target]

NotCalled == [called |-> FALSE, err |-> "nil", opts |-> ZeroLaunchOpts]
Returned(opts, err) == [called |-> TRUE, err |-> err, opts |-> opts]

DevImageName(r) == "nitric-" \o r \o "-dev"

\* filepath.Abs: [err, val]
Abs(path, wd) ==
  IF IsAbs(path) THEN Ok(Clean(path))
  ELSE IF wd.err THEN Failed
  ELSE Ok(Join(<<wd.val, path>>))

\* Mutant: the name of the handler itself, not of its directory.
golangContainerNameOfHandler(h, wd) ==
  LET absH == Abs(h, wd)
  IN  IF absH.err THEN "" ELSE Str(Base(absH.val))

golangContainerName(h, wd) ==
  LET absH == Abs(h, wd)
  IN  IF absH.err THEN "" ELSE Str(Base(Dir(absH.val)))

\* filepath.Ext: the suffix from the last dot of the last element on, empty
\* when the last element has no dot.
Ext(path) ==
  LET dots == {i \in 1..Len(path) :
                 path[i] = "." /\ \A k \in i..Len(path) : path[k] # Separator}
  IN  IF dots = {} THEN <<>>
      ELSE SubSeq(path, CHOOSE i \in dots : \A j \in dots : j <= i, Len(path))

\* strings.Index, counted from 1; 0 when substr does not occur in s.
Index(s, substr) ==
  IF ~Contains(s, substr) THEN 0
  ELSE CHOOSE i \in 1..(Len(s) - Len(substr) + 1) :
         /\ SubSeq(s, i, i + Len(substr) - 1) = substr
         /\ \A k \in 1..(i - 1) : SubSeq(s, k, k + Len(substr) - 1) # substr

\* strings.Replace: the first n occurrences of old, from the left, become new
\* (every one when n < 0); an empty old matches before each character and
\* at the end.
RECURSIVE Replace(_, _, _, _)
Replace(s, old, new, n) ==
  IF old = new \/ n = 0 THEN s
  ELSE IF old = <<>>
         THEN IF s = <<>> THEN new
              ELSE new \o <<Head(s)>> \o Replace(Tail(s), old, new, n - 1)
  ELSE IF Index(s, old) = 0 THEN s
  ELSE LET i == Index(s, old)
       IN  SubSeq(s, 1, i - 1) \o new
             \o Replace(SubSeq(s, i + Len(old), Len(s)), old, new, n - 1)

pythonContainerName(h) == Str(Replace(Base(h), Ext(h), <<>>, 1))

\* What ContainerName hands back: a string, it has no error result.
NoName == [called |-> FALSE, val |-> ""]
Named(val) == [called |-> TRUE, val |-> val]

\* Mutant: the target working directory loses the module name.
golangLaunchOptsForFunctionCollectNoModuleWD(r, h, ctx, module, gp) ==
  IF module.err THEN Returned(ZeroLaunchOpts, "module")
  ELSE IF gp.err THEN Returned(ZeroLaunchOpts, "gopath")
  ELSE Returned(
         [Image |-> DevImageName(r),
          Entrypoint |-> <<>>,
          TargetWD |-> ToSlash(GoSrcDir),
          Cmd |-> <<"go", "run", "./" \o Str(ToSlash(Dir(h))) \o "/...">>,
          Mounts |-> <<BindMount(Join(<<gp.val, PkgDir>>), GoPkgDir),
                       BindMount(ctx, ToSlash(Join(<<GoSrcDir, module.val>>)))>>],
         "nil")

golangLaunchOptsForFunctionCollect(r, h, ctx, module, gp) ==
  IF module.err THEN Returned(ZeroLaunchOpts, "module")
  ELSE IF gp.err THEN Returned(ZeroLaunchOpts, "gopath")
  ELSE Returned(
         [Image |-> DevImageName(r),
          Entrypoint |-> <<>>,
          TargetWD |-> ToSlash(Join(<<GoSrcDir, module.val>>)),
          Cmd |-> <<"go", "run", "./" \o Str(ToSlash(Dir(h))) \o "/...">>,
          Mounts |-> <<BindMount(Join(<<gp.val, PkgDir>>), GoPkgDir),
                       BindMount(ctx, ToSlash(Join(<<GoSrcDir, module.val>>)))>>],
         "nil")

\* The handler relative to the run context, as LaunchOptsForFunction computes it.
\* Mutant: the handler is used as given, the relative path is never computed.
RelHandlerAsGiven(h, ctx) == Ok(h)
\* Mutant: a failure of filepath.Rel is swallowed and the handler used as given.
RelHandlerSwallowed(h, ctx) ==
  IF HasPrefix(h, ctx) /\ ~Rel(ctx, h).err THEN Rel(ctx, h) ELSE Ok(h)
RelHandler(h, ctx) == IF HasPrefix(h, ctx) THEN Rel(ctx, h) ELSE Ok(h)

golangLaunchOptsForFunction(r, h, ctx, module, gp, wd) ==
  LET containerRunCtx == ToSlash(Join(<<GoSrcDir, module.val>>))
      relHandler == RelHandler(h, ctx)
  IN  IF module.err THEN Returned(ZeroLaunchOpts, "module")
      ELSE IF relHandler.err THEN Returned(ZeroLaunchOpts, "rel")
      ELSE IF gp.err THEN Returned(ZeroLaunchOpts, "gopath")
      ELSE Returned(
             [Image |-> "",
              Entrypoint |-> <<>>,
              TargetWD |-> containerRunCtx,
              Cmd |-> <<"/go/bin/CompileDaemon",
                        "-verbose",
                        "-exclude-dir=.git",
                        "-exclude-dir=.nitric",
                        "-directory=.",
                        "-polling=" \o (IF GOOS = "windows" THEN "true" ELSE "false"),
                        "-build=go build -buildvcs=false -o " \o golangContainerName(h, wd)
                          \o " ./" \o Str(ToSlash(Dir(relHandler.val))) \o "/...",
                        "-command=./" \o golangContainerName(h, wd)>>,
              Mounts |-> <<BindMount(Join(<<gp.val, PkgDir>>), GoPkgDir),
                           BindMount(ctx, containerRunCtx)>>],
             "nil")

pythonLaunchOptsForFunctionCollect(r, h, ctx) ==
  Returned(
    [Image |-> DevImageName(r),
     Entrypoint |-> <<"python">>,
     Cmd |-> <<"/app/" \o Str(ToSlash(h))>>,
     TargetWD |-> AppDir,
     Mounts |-> <<BindMount(ctx, AppDir)>>],
    "nil")

\* Mutant: the handler is run directly, without the live-patch runner.
pythonLaunchOptsForFunctionNoRunner(r, h, ctx) ==
  Returned(
    [Image |-> DevImageName(r),
     Entrypoint |-> <<"python">>,
     Cmd |-> <<"/app/" \o Str(ToSlash(h))>>,
     TargetWD |-> AppDir,
     Mounts |-> <<BindMount(ctx, AppDir)>>],
    "nil")

pythonLaunchOptsForFunction(r, h, ctx) ==
  Returned(
    [Image |-> DevImageName(r),
     Entrypoint |-> <<"python">>,
     Cmd |-> <<"-m", "jurigged", "-v", "/app/" \o Str(ToSlash(h))>>,
     TargetWD |-> AppDir,
     Mounts |-> <<BindMount(ctx, AppDir)>>],
    "nil")

(***************************************************************************)
(* Build recipes.  A recipe is a sequence of lines and a line a sequence   *)
(* of pieces whose concatenation is the line's text; the first piece of a  *)
(* statement is its instruction.                                           *)
(***************************************************************************)
RECURSIVE LineText(_)
LineText(line) == IF line = <<>> THEN "" ELSE Head(line) \o LineText(Tail(line))

RECURSIVE JoinWords(_)
JoinWords(words) ==
  IF words = <<>> THEN ""
  ELSE IF Len(words) = 1 THEN words[1]
  ELSE words[1] \o " " \o JoinWords(Tail(words))

\* fmt.Sprintf over one line: each %s takes the next operand.
RECURSIVE SprintfLine(_, _)
SprintfLine(line, operands) ==
  IF line = <<>> THEN [out |-> <<>>, rest |-> operands]
  ELSE IF Head(line) = "%s"
         THEN IF operands = <<>>
                THEN LET r == SprintfLine(Tail(line), operands)
                     IN  [out |-> <<"%!s(MISSING)">> \o r.out, rest |-> r.rest]
              ELSE LET r == SprintfLine(Tail(line), Tail(operands))
                   IN  [out |-> Head(operands) \o r.out, rest |-> r.rest]
  ELSE LET r == SprintfLine(Tail(line), operands)
       IN  [out |-> <<Head(line)>> \o r.out, rest |-> r.rest]

\* fmt.Sprintf over the lines of a format; operands left over are reported
\* at the end of the text.
RECURSIVE Sprintf(_, _)
Sprintf(format, operands) ==
  IF format = <<>>
    THEN IF operands = <<>> THEN <<>> ELSE << <<"%!(EXTRA)">> >>
  ELSE LET r == SprintfLine(Head(format), operands)
       IN  <<r.out>> \o Sprintf(Tail(format), r.rest)

\* The sidecar download URL for a version and a provider.
membraneUrl(ver, prov) ==
  <<"https://github.com/nitrictech/nitric/releases/download/", ver, "/membrane-", prov>>

\* The name of the final build stage.
layerFinal == "layer-final"

\* The Dockerfile builder: each call appends statements to the container's lines.
builderFrom(image, as) == << <<"FROM", " ", image, " as ", as>> >>
builderRun(command) == << <<"RUN", " ", JoinWords(command)>> >>
builderCopy(src, dest) == << <<"COPY", " ", src, " ", dest>> >>
builderAdd(src, dest) == << <<"ADD", " ">> \o src \o <<" ", dest>> >>
builderWorkingDir(dir) == << <<"WORKDIR", " ", dir>> >>
builderEnv(name, value) == << <<"ENV", " ", name, "=", value>> >>
builderPorts(port) == << <<"EXPOSE", " ", ToString(port)>> >>
builderEntrypoint(command) == << <<"ENTRYPOINT", " ", JoinWords(command)>> >>
builderCmd(command) == << <<"CMD", " ", JoinWords(command)>> >>

\* withMembrane: the sidecar is added to the container and made its entrypoint.
withMembrane(ver, prov) ==
  builderAdd(membraneUrl(ver, prov), "/usr/local/bin/membrane")
    \o builderRun(<<"chmod", "+x-rw", "/usr/local/bin/membrane">>)
    \o builderPorts(9001)
    \o builderEntrypoint(<<"/usr/local/bin/membrane">>)

devDockerfile ==
  << <<"# syntax = docker/dockerfile:1.3">>,
     <<"FROM", " ", "golang:alpine">>,
     <<>>,
     <<"RUN", " ", "apk add --no-cache git">>,
     <<"RUN", " ", "go install github.com/asalkeld/CompileDaemon@d4b10de">>,
     <<>> >>

prodDockerfile ==
  << <<"# syntax = docker/dockerfile:1.3">>,
     <<"FROM", " ", "golang:alpine", " as ", "build">>,
     <<"RUN", " ", "apk update">>,
     <<"RUN", " ", "apk upgrade">>,
     <<"RUN", " ", "apk add --no-cache git gcc g++ make">>,
     <<>>,
     <<"WORKDIR", " ", "/app/">>,
     <<>>,
     <<"COPY", " ", ".", " ", ".">>,
     <<>>,
     <<"RUN", " ", "--mount=type=cache,target=/root/.cache/go-build go build -o /bin/main ./",
       "%s", "/...">>,
     <<>>,
     <<"FROM", " ", "alpine">>,
     <<>>,
     <<"RUN", " ", "apk add --no-cache tzdata">>,
     <<"ADD", " ", "%s", " ", "/bin/membrane">>,
     <<"RUN", " ", "chmod +x /bin/membrane">>,
     <<>>,
     <<"COPY", " ", "--from=", "build", " ", "/bin/main", " ", "/bin/main">>,
     <<>>,
     <<"RUN", " ", "chmod +x-rw /bin/main">>,
     <<>>,
     <<"EXPOSE", " ", "9001">>,
     <<>>,
     <<"ENTRYPOINT", " ", "/bin/membrane">>,
     <<"CMD", " ", "/bin/main">>,
     <<>> >>

\* What a recipe method hands back: the error, and the text it gave the writer
\* (none when it returned before writing).
NoRecipe == [called |-> FALSE, err |-> "nil", text |-> <<>>, wrote |-> FALSE]
RecipeFailed(err) == [called |-> TRUE, err |-> err, text |-> <<>>, wrote |-> FALSE]
RecipeWritten(text) == [called |-> TRUE, err |-> "nil", text |-> text, wrote |-> TRUE]

\* Mutant: the two operands of the format are swapped.
golangFunctionDockerfileSwapped(h, ver, prov) ==
  RecipeWritten(Sprintf(prodDockerfile, <<membraneUrl(ver, prov), <<Str(Dir(h))>> >>))

golangFunctionDockerfile(h, ver, prov) ==
  RecipeWritten(Sprintf(prodDockerfile, << <<Str(Dir(h))>>, membraneUrl(ver, prov)>>))

golangFunctionDockerfileForCodeAsConfig == RecipeWritten(devDockerfile)

pythonConfigLines(h) ==
  builderEnv("PYTHONPATH", "/app/:${PYTHONPATH}")
    \o builderPorts(9001)
    \o builderCmd(<<"python", Str(h)>>)

\* Mutant: the development recipe injects the sidecar like the production one.
pythonFunctionDockerfileForCodeAsConfigWithSidecar(h, manifest, conFails) ==
  IF conFails THEN RecipeFailed("newContainer")
  ELSE IF ~manifest THEN RecipeFailed("copy")
  ELSE RecipeWritten(
         builderFrom("python:3.9-slim", layerFinal)
           \o builderRun(<<"pip", "install", "--upgrade", "pip">>)
           \o builderWorkingDir("/")
           \o builderRun(<<"pip", "install", "jurigged">>)
           \o builderCopy("requirements.txt", "requirements.txt")
           \o builderRun(<<"pip", "install", "--no-cache-dir", "-r", "requirements.txt">>)
           \o builderCopy(".", ".")
           \o withMembrane("latest", "dev")
           \o pythonConfigLines(h))

pythonFunctionDockerfileForCodeAsConfig(h, manifest, conFails) ==
  IF conFails THEN RecipeFailed("newContainer")
  ELSE IF ~manifest THEN RecipeFailed("copy")
  ELSE RecipeWritten(
         builderFrom("python:3.9-slim", layerFinal)
           \o builderRun(<<"pip", "install", "--upgrade", "pip">>)
           \o builderWorkingDir("/")
           \o builderRun(<<"pip", "install", "jurigged">>)
           \o builderCopy("requirements.txt", "requirements.txt")
           \o builderRun(<<"pip", "install", "--no-cache-dir", "-r", "requirements.txt">>)
           \o builderCopy(".", ".")
           \o pythonConfigLines(h))

\* Mutant: the copy of the build context is left out.
pythonFunctionDockerfileNoContext(h, ver, prov, manifest, conFails) ==
  IF conFails THEN RecipeFailed("newContainer")
  ELSE IF ~manifest THEN RecipeFailed("copy")
  ELSE RecipeWritten(
         builderFrom("python:3.9-slim", layerFinal)
           \o builderRun(<<"pip", "install", "--upgrade", "pip">>)
           \o builderWorkingDir("/")
           \o builderCopy("requirements.txt", "requirements.txt")
           \o builderRun(<<"pip", "install", "--no-cache-dir", "-r", "requirements.txt">>)
           \o withMembrane(ver, prov)
           \o pythonConfigLines(h))

pythonFunctionDockerfile(h, ver, prov, manifest, conFails) ==
  IF conFails THEN RecipeFailed("newContainer")
  ELSE IF ~manifest THEN RecipeFailed("copy")
  ELSE RecipeWritten(
         builderFrom("python:3.9-slim", layerFinal)
           \o builderRun(<<"pip", "install", "--upgrade", "pip">>)
           \o builderWorkingDir("/")
           \o builderCopy("requirements.txt", "requirements.txt")
           \o builderRun(<<"pip", "install", "--no-cache-dir", "-r", "requirements.txt">>)
           \o builderCopy(".", ".")
           \o withMembrane(ver, prov)
           \o pythonConfigLines(h))

\* The javascript generator drops what Copy reports: a missing manifest only
\* leaves its COPY statement out.
javascriptGenerator(h, ver, prov, manifest, conFails) ==
  IF conFails THEN RecipeFailed("newContainer")
  ELSE RecipeWritten(
         << <<"FROM", " ", "node:alpine">> >>
           \o withMembrane(ver, prov)
           \o (IF manifest THEN builderCopy("package.json *.lock *-lock.json", "/") ELSE <<>>)
           \o builderRun(<<"yarn", "import", "||", "echo", "Lockfile already exists">>)
           \o builderRun(<<"set", "-ex;", "yarn", "install", "--production",
                           "--frozen-lockfile", "--cache-folder", "/tmp/.cache;",
                           "rm", "-rf", "/tmp/.cache;">>)
           \o builderCopy(".", ".")
           \o builderCmd(<<"node", Str(h)>>))

(***************************************************************************)
(* Ignore patterns.  A Go slice is a backing array and a length; append    *)
(* writes into the array while capacity is left and allocates otherwise.   *)
(***************************************************************************)
\* The common baseline ignore set, as the slice literal that declares it.
commonIgnoreLiteral == [arr |-> <<".nitric/", ".git/", ".idea/">>, len |-> 3]

SliceElems(sl) == SubSeq(sl.arr, 1, sl.len)

\* append(sl, xs...): [ret: the slice returned, arr: sl's backing array afterwards]
GoAppend(sl, xs) ==
  IF sl.len + Len(xs) <= Len(sl.arr)
    THEN LET arr2 == [i \in 1..Len(sl.arr) |->
                        IF i > sl.len /\ i <= sl.len + Len(xs) THEN xs[i - sl.len]
                        ELSE sl.arr[i]]
         IN  [ret |-> [arr |-> arr2, len |-> sl.len + Len(xs)], arr |-> arr2]
  ELSE [ret |-> [arr |-> SliceElems(sl) \o xs, len |-> sl.len + Len(xs)], arr |-> sl.arr]

\* BuildIgnore: [ret: the list returned, common: commonIgnore afterwards]
golangBuildIgnore(common) == [ret |-> <<>>, common |-> common]

pythonBuildIgnore(common) ==
  LET a == GoAppend(common, <<"__pycache__/", "*.py[cod]", "*$py.class">>)
  IN  [ret |-> SliceElems(a.ret), common |-> [arr |-> a.arr, len |-> common.len]]

(***************************************************************************)
(* The podman container engine.                                            *)
(***************************************************************************)
PodmanWord == <<"p", "o", "d", "m", "a", "n">>

\* What newPodman returns, and what it printed.
NoEngineYet == [called |-> FALSE, engine |-> "nil", err |-> "nil", printed |-> <<>>]
EngineRet(engine, err, printed) ==
  [called |-> TRUE, engine |-> engine, err |-> err, printed |-> printed]

\* Mutant: the output of `docker --version` is not inspected.
newPodmanNoShimCheck(h) ==
  IF ~h.podmanVersionOk THEN EngineRet("nil", "podman --version failed", <<>>)
  ELSE IF ~h.dockerVersionOk
         THEN EngineRet("nil", "the podman-docker package is required", <<>>)
  ELSE IF ~h.clientOk THEN EngineRet("nil", "client construction failed", <<>>)
  ELSE IF ~h.containerListOk
         THEN EngineRet("nil", "container list failed",
                        <<"podman socket not running, please execute 'sudo systemctl start podman.socket'">>)
  ELSE EngineRet("podman", "nil", <<"podman found">>)

newPodman(h) ==
  IF ~h.podmanVersionOk THEN EngineRet("nil", "podman --version failed", <<>>)
  ELSE IF ~h.dockerVersionOk
         THEN EngineRet("nil", "the podman-docker package is required", <<>>)
  ELSE IF ~Contains(h.dockerOut, PodmanWord)
         THEN EngineRet("nil", "both podman and docker found, will use docker", <<>>)
  ELSE IF ~h.clientOk THEN EngineRet("nil", "client construction failed", <<>>)
  ELSE IF ~h.containerListOk
         THEN EngineRet("nil", "container list failed",
                        <<"podman socket not running, please execute 'sudo systemctl start podman.socket'">>)
  ELSE EngineRet("podman", "nil", <<"podman found">>)

\* A call on the embedded docker engine.
DockerCall(op, args) == [op |-> op, args |-> args]

\* What an operation of the podman engine did: the calls it made on the
\* embedded docker engine, what it returned, and the subprocess it ran.
NoExec == [ran |-> FALSE, name |-> "", args |-> <<>>, printer |-> "none", context |-> {}]
Forwarded(op, args, answer) ==
  [calls |-> <<DockerCall(op, args)>>, ret |-> answer, exec |-> NoExec]

podmanType == [calls |-> <<>>, ret |-> [val |-> "podman", err |-> "nil"], exec |-> NoExec]

podmanVersion(d) == Forwarded("Version", <<>>, d)

\* strings.ToLower on the letters of the model.
LowerChar(c) == IF c = "A" THEN "a" ELSE IF c = "P" THEN "p" ELSE c
\* Mutant: the tag is passed on in the case it was given in.
ToLowerAsGiven(str) == str
ToLower(str) == [i \in 1..Len(str) |-> LowerChar(str[i])]

\* fmt.Sprint of string operands: they are written one after the other (a
\* space goes only between operands that are both not strings).
RECURSIVE Sprint(_)
Sprint(operands) == IF operands = <<>> THEN "" ELSE Head(operands) \o Sprint(Tail(operands))

\* The --build-arg options, for the order in which the map is ranged over.
RECURSIVE BuildArgOptions(_, _)
BuildArgOptions(buildArgs, order) ==
  IF order = <<>> THEN <<>>
  ELSE <<"--build-arg", Sprint(<<"%s=%s", Head(order), buildArgs[Head(order)]>>)>>
         \o BuildArgOptions(buildArgs, Tail(order))

\* A file of the context directory: the directory it lies in, relative to the
\* context directory, and its name.
ContextFile(dir, name) == [dir |-> dir, name |-> name]

\* An ignore pattern matches the files of the directory it names and the
\* files it names.
Matches(pattern, f) == f.dir = pattern \/ f.name = pattern

\* The build context `podman build` reads for a context directory: its files
\* but for those the ignore file lying in the directory lists.
PodmanBuildContext(files, ignoreFile) ==
  {f \in files : \A i \in 1..Len(ignoreFile) : ~Matches(ignoreFile[i], f)}

\* Build: the podman build subprocess is started and waited for; its output
\* is handed to a print worker.  startErr and waitErr are what cmd.Start and
\* cmd.Wait report; files and ignoreFile are what lies in the context
\* directory: Build writes no ignore file and passes no ignore option, so the
\* subprocess works on the directory as it was found.
podmanBuild(dockerfile, path, imageTag, buildArgs, order, excludes, startErr, waitErr, files, ignoreFile) ==
  LET args == <<"build", path, "-f", dockerfile, "-t", Str(ToLower(imageTag))>>
                \o BuildArgOptions(buildArgs, order)
  IN  IF startErr # "nil"
        THEN [calls |-> <<>>, ret |-> [val |-> "", err |-> startErr],
              exec |-> [ran |-> FALSE, name |-> "podman", args |-> args, printer |-> "none",
                        context |-> {}]]
      ELSE [calls |-> <<>>, ret |-> [val |-> "", err |-> waitErr],
            exec |-> [ran |-> TRUE, name |-> "podman", args |-> args, printer |-> "reading",
                      context |-> PodmanBuildContext(files, ignoreFile)]]

podmanListImages(stackName, containerName, d) ==
  Forwarded("ListImages", <<stackName, containerName>>, d)

podmanImagePull(rawImage, opts, d) == Forwarded("ImagePull", <<rawImage, opts>>, d)

podmanContainerCreate(config, hostConfig, networkingConfig, name, d) ==
  Forwarded("ContainerCreate", <<config, hostConfig, networkingConfig, name>>, d)

podmanStart(nameOrID, d) == Forwarded("Start", <<nameOrID>>, d)

\* Mutant: the error of the embedded engine is dropped.
podmanStopNoError(nameOrID, timeout, d) ==
  [calls |-> <<DockerCall("Stop", <<nameOrID, timeout>>)>>,
   ret |-> [val |-> d.val, err |-> "nil"], exec |-> NoExec]

podmanStop(nameOrID, timeout, d) == Forwarded("Stop", <<nameOrID, timeout>>, d)

podmanContainerWait(containerID, condition, d) ==
  Forwarded("ContainerWait", <<containerID, condition>>, d)

podmanRemoveByLabel(labels, d) == Forwarded("RemoveByLabel", <<labels>>, d)

podmanContainerLogs(containerID, opts, d) ==
  Forwarded("ContainerLogs", <<containerID, opts>>, d)

\* Logger: a json-file logger on the log file of the stack; what
\* NewNitricLogFile reports besides the path is dropped.
podmanLogger(stackPath, logFile) ==
  [calls |-> <<>>,
   ret |-> [val |-> "&jsonfile{" \o logFile.val \o "}", err |-> "nil"],
   exec |-> NoExec]

(***************************************************************************)
(* Providers.  NewProvider and ProviderFromFile turn the provider name     *)
(* into the reference they hand to the remote provider package, which      *)
(* answers with a provider or an error.                                    *)
(***************************************************************************)
\* types.Aws, types.Azure, types.Gcp
Aws == "aws"
Azure == "azure"
Gcp == "gcp"

\* A call made on the remote provider package, and what came back.
RemoteCall(fn, cfc, name, prov, envMap, opts, answer) ==
  [calls |-> <<[fn |-> fn, args |-> <<cfc, name, prov, envMap, opts>>]>>,
   ret |-> answer]

ProviderFromFile(cfc, name, prov, envMap, opts, defaultVersion, answer) ==
  IF prov \in {Aws, Azure, Gcp}
    THEN RemoteCall("remote.FromFile", cfc, name,
                    "nitric/" \o prov \o "@" \o defaultVersion, envMap, opts, answer)
  ELSE RemoteCall("remote.FromFile", cfc, name, prov, envMap, opts, answer)

\* Mutant: azure is not among the providers resolved to a nitric reference.
NewProviderWithoutAzure(cfc, name, prov, envMap, opts, defaultVersion, answer) ==
  IF prov \in {Aws, Gcp}
    THEN RemoteCall("remote.New", cfc, name,
                    "nitric/" \o prov \o "@" \o defaultVersion, envMap, opts, answer)
  ELSE RemoteCall("remote.New", cfc, name, prov, envMap, opts, answer)

NewProvider(cfc, name, prov, envMap, opts, defaultVersion, answer) ==
  IF prov \in {Aws, Azure, Gcp}
    THEN RemoteCall("remote.New", cfc, name,
                    "nitric/" \o prov \o "@" \o defaultVersion, envMap, opts, answer)
  ELSE RemoteCall("remote.New", cfc, name, prov, envMap, opts, answer)

(***************************************************************************)
(* Function helpers of the stack package.                                  *)
(***************************************************************************)
DefaulMembraneVersion == "v0.0.1-rc.3"

VersionString(f, s) ==
  IF f.Version # "" THEN f.Version ELSE DefaulMembraneVersion

ImageTagNameAlwaysProvider(f, s, prov) ==
  IF f.Tag # "" THEN f.Tag ELSE s.Name \o "-" \o f.name \o "-" \o prov

ImageTagName(f, s, prov) ==
  IF f.Tag # ""
  THEN f.Tag
  ELSE LET providerString == IF prov # "" THEN "-" \o prov ELSE ""
       IN  s.Name \o "-" \o f.name \o providerString

(***************************************************************************)
(* Command aliases of the root command.  The module is built as go 1.16,   *)
(* where the variables of a range statement are declared once for the loop *)
(* and a function literal in its body refers to them, not to their value   *)
(* in the iteration that made it.                                          *)
(***************************************************************************)
\* strings.Split(s, sep) for a separator of one character
RECURSIVE StringsSplit(_, _)
StringsSplit(s, sep) ==
  IF \A i \in 1..Len(s) : s[i] # sep
  THEN <<s>>
  ELSE LET i == CHOOSE k \in 1..Len(s) : s[k] = sep /\ \A j \in 1..(k - 1) : s[j] # sep
       IN  <<SubSeq(s, 1, i - 1)>> \o StringsSplit(SubSeq(s, i + 1, Len(s)), sep)

\* The orders in which a range statement can visit a map with these keys.
RangeOrders(keys) ==
  {o \in [1..Cardinality(keys) -> keys] : \A i, j \in DOMAIN o : o[i] = o[j] => i = j}

AliasWords(words) == [i \in DOMAIN words |-> Str(words[i])]

\* The body of addAliases' loop for the keys still to visit: the loop
\* variable and the commands added when the loop ends.
RECURSIVE addAliasesLoop(_, _, _)
addAliasesLoop(configured, order, st) ==
  IF order = <<>>
  THEN st
  ELSE LET n == Head(order)
           loopVar == configured[n]
           alias == [Use |-> n,
                     Short |-> "alias for: " \o Str(loopVar),
                     Long |-> "Custom alias command for " \o Str(loopVar),
                     Run |-> "aliasString",
                     DisableFlagParsing |-> TRUE]
       IN  addAliasesLoop(configured, Tail(order),
                          [aliasString |-> loopVar, commands |-> st.commands \cup {alias}])

addAliases(configured, order) ==
  addAliasesLoop(configured, order, [aliasString |-> <<>>, commands |-> {}])

\* The Run function of an alias command: the new os.Args.
aliasRunArgs(loopVar, args, oldArgs) ==
  LET newArgs0 == <<oldArgs[1]>>
      newArgs1 == newArgs0 \o AliasWords(StringsSplit(loopVar, " "))
  IN  newArgs1 \o args

(***************************************************************************)
(* The azure provider.  A pointer is a record whose field isNil says       *)
(* whether it is nil; reading a field through a nil pointer, and a type    *)
(* assertion on a value of another type, end the call with a panic.        *)
(***************************************************************************)
NilDereference == "invalid memory address or nil pointer dereference"
NilApps == [isNil |-> TRUE, Apps |-> {}]

DeployDone(ret, panic, steps) == [called |-> TRUE, ret |-> ret, panic |-> panic, steps |-> steps]

\* The steps of Deploy up to the managed identity, each of which returns
\* its error.
DeployPrelude(p) ==
  <<"os.MkdirTemp", "GetClientConfig", "NewResourceGroup", "NewVault">>
  \o (IF p.Buckets # {} \/ p.Queues # {} THEN <<"newStorageResources">> ELSE <<>>)
  \o (IF p.Topics # {} THEN <<"NewTopic">> ELSE <<>>)
  \o (IF p.Collections # {} THEN <<"newMongoCollections">> ELSE <<>>)
  \o <<"NewUserAssignedIdentity">>

FailsIn(steps, fail) == \E i \in 1..Len(steps) : steps[i] = fail

StepsUpTo(steps, fail) ==
  SubSeq(steps, 1, CHOOSE i \in 1..Len(steps) : steps[i] = fail /\ \A j \in 1..(i - 1) : steps[j] # fail)

newSchedule(schedule, functions, fail) ==
  IF fail = "RegisterComponentResource"
  THEN [err |-> "RegisterComponentResource", panic |-> "", steps |-> <<"RegisterComponentResource">>]
  ELSE IF schedule.Type = "function"
  THEN IF functions.isNil
       THEN [err |-> "", panic |-> NilDereference, steps |-> <<"RegisterComponentResource">>]
       ELSE IF schedule.Target \in functions.Apps
       THEN [err |-> IF fail = "NewDaprComponent"
                     THEN "could not create DaprComponent for app: NewDaprComponent"
                     ELSE "nil",
             panic |-> "",
             steps |-> <<"RegisterComponentResource", "NewDaprComponent">>]
       ELSE [err |-> "could not resolve container app", panic |-> "",
             steps |-> <<"RegisterComponentResource">>]
  ELSE [err |-> "unsupported schedule target type", panic |-> "",
        steps |-> <<"RegisterComponentResource">>]

\* Deploy for a project with at most one schedule and one api document.
azureDeploy(p, fail) ==
  LET prelude == DeployPrelude(p)
      createApps == p.Functions # {} \/ p.Containers # {}
      apps == IF createApps
              THEN [isNil |-> FALSE, Apps |-> p.Functions \cup p.Containers]
              ELSE NilApps
      s1 == prelude \o (IF createApps THEN <<"newContainerApps">> ELSE <<>>)
      s2 == s1 \o <<"newSubscriptions">>
  IN  IF FailsIn(prelude, fail)
      THEN DeployDone(IF fail = "NewResourceGroup" THEN "resource group create: " \o fail
                      ELSE IF fail = "newStorageResources" THEN "storage create: " \o fail
                      ELSE IF fail = "NewTopic" THEN "eventgrid topic: " \o fail
                      ELSE IF fail = "newMongoCollections" THEN "mongodb collections: " \o fail
                      ELSE fail,
                      "", StepsUpTo(prelude, fail))
      ELSE IF createApps /\ fail = "newContainerApps"
      THEN DeployDone("containerApps: " \o fail, "", s1)
      ELSE IF apps.isNil
      THEN DeployDone("", NilDereference, s1)
      ELSE IF fail = "newSubscriptions"
      THEN DeployDone("subscriptions: " \o fail, "", s2)
      ELSE LET sched == IF p.Schedules = {}
                        THEN [err |-> "nil", panic |-> "", steps |-> <<>>]
                        ELSE newSchedule(CHOOSE s \in p.Schedules : TRUE, apps, fail)
               s3 == s2 \o sched.steps
               s4 == s3 \o <<"newAzureApiManagement">>
           IN  IF sched.panic # ""
               THEN DeployDone("", sched.panic, s3)
               ELSE IF sched.err # "nil"
               THEN DeployDone("schedule: " \o sched.err, "", s3)
               ELSE IF p.ApiDocs = {}
               THEN DeployDone("nil", "", s3)
               ELSE IF apps.isNil
               THEN DeployDone("", NilDereference, s3)
               ELSE IF fail = "newAzureApiManagement"
               THEN DeployDone("gateway: " \o fail, "", s4)
               ELSE DeployDone("nil", "", s4)

SupportedRegions ==
  <<"canadacentral", "eastasia", "eastus", "eastus2", "germanywestcentral", "japaneast",
    "northeurope", "uksouth", "westeurope", "westus">>

\* sliceutil.Contains
SliceContains(slice, x) == \E i \in 1..Len(slice) : slice[i] = x

\* A value of type interface{} holding a string, and one holding an int.
StringValue(s) == [type |-> "string", val |-> s]
IntValue(s) == [type |-> "int", val |-> s]

ValidateDone(errs, panic) ==
  [called |-> TRUE, isNil |-> errs = <<>> /\ panic = "", errs |-> errs, panic |-> panic]

\* Validate: the errors pushed, and the fields org and adminEmail after it.
azureValidate(cfg, org, adminEmail) ==
  LET e1 == IF cfg.Region = ""
            THEN <<"target " \o cfg.Provider \o " requires \"region\"">>
            ELSE IF ~SliceContains(SupportedRegions, cfg.Region)
            THEN <<"region " \o cfg.Region \o " not supported on provider " \o cfg.Provider>>
            ELSE <<>>
      hasOrg == "org" \in DOMAIN cfg.Extra
      hasEmail == "adminemail" \in DOMAIN cfg.Extra
      e2 == IF ~hasOrg
            THEN Append(e1, "target " \o cfg.Provider \o " requires \"org\"")
            ELSE e1
      e3 == IF ~hasEmail
            THEN Append(e2, "target " \o cfg.Provider \o " requires \"adminemail\"")
            ELSE e2
  IN  IF hasOrg /\ cfg.Extra["org"].type # "string"
      THEN [ret |-> ValidateDone(e1, "interface conversion: interface {} is "
                                     \o cfg.Extra["org"].type \o ", not string"),
            org |-> org, adminEmail |-> adminEmail]
      ELSE LET org2 == IF hasOrg THEN cfg.Extra["org"].val ELSE org
           IN  IF hasEmail /\ cfg.Extra["adminemail"].type # "string"
               THEN [ret |-> ValidateDone(e2, "interface conversion: interface {} is "
                                              \o cfg.Extra["adminemail"].type
                                              \o ", not string"),
                     org |-> org2, adminEmail |-> adminEmail]
               ELSE [ret |-> ValidateDone(e3, ""),
                     org |-> org2,
                     adminEmail |-> IF hasEmail THEN cfg.Extra["adminemail"].val
                                    ELSE adminEmail]

(***************************************************************************)
(* The health check of a deployed lambda function.                         *)
(***************************************************************************)
\* retry.Attempts(3)
Attempts == 3

\* retry.Do: whether it calls the function again after these results.
retryAgain(results, attempts) ==
  /\ Len(results) < attempts
  /\ results # <<>> => results[Len(results)].err # "nil"

\* retry.Do: the error it returns after these results, <<>> standing for nil.
retryErr(results) ==
  IF results # <<>> /\ results[Len(results)].err = "nil"
  THEN <<>>
  ELSE [i \in 1..Len(results) |-> results[i].err]

isHealthyWhateverErr(err) == [done |-> TRUE, healthy |-> TRUE, err |-> <<>>]

\* What the function given to ApplyT returns for the error of retry.Do.
isHealthy(err) ==
  IF err # <<>>
  THEN [done |-> TRUE, healthy |-> FALSE, err |-> err]
  ELSE [done |-> TRUE, healthy |-> TRUE, err |-> <<>>]

(***************************************************************************)
(* Defaults of the configuration.  A map is a function on its keys; the    *)
(* value of build_timeout is unset, a duration in seconds, or text that is *)
(* no duration.                                                            *)
(***************************************************************************)
\* 5*time.Minute, in seconds
DefaultBuildTimeout == 300

Unset == [kind |-> "unset", val |-> 0]
Duration(seconds) == [kind |-> "duration", val |-> seconds]
NoDuration == [kind |-> "text", val |-> 0]

\* viper.GetDuration: 0 for a key that is not set or holds no duration
GetDuration(v) == IF v.kind = "duration" THEN v.val ELSE 0

\* m[key] = value
MapSet(m, key, value) ==
  [k \in DOMAIN m \cup {key} |-> IF k = key THEN value ELSE m[k]]

ensureConfigDefaultsAlwaysWrites(cfg) ==
  [config |-> [aliases |-> IF "new" \in DOMAIN cfg.aliases THEN cfg.aliases
                           ELSE MapSet(cfg.aliases, "new", "stack create"),
               targets |-> IF "local" \in DOMAIN cfg.targets THEN cfg.targets
                           ELSE MapSet(cfg.targets, "local", "provider: local"),
               build_timeout |-> IF GetDuration(cfg.build_timeout) = 0
                                 THEN Duration(DefaultBuildTimeout)
                                 ELSE cfg.build_timeout],
   needsWrite |-> TRUE]

\* ensureConfigDefaults: the configuration after it, and needsWrite.
ensureConfigDefaults(cfg) ==
  LET noAlias == "new" \notin DOMAIN cfg.aliases
      aliases1 == IF noAlias THEN MapSet(cfg.aliases, "new", "stack create") ELSE cfg.aliases
      noTarget == "local" \notin DOMAIN cfg.targets
      targets1 == IF noTarget THEN MapSet(cfg.targets, "local", "provider: local")
                  ELSE cfg.targets
      to == GetDuration(cfg.build_timeout)
      timeout1 == IF to = 0 THEN Duration(DefaultBuildTimeout) ELSE cfg.build_timeout
  IN  [config |-> [aliases |-> aliases1, targets |-> targets1, build_timeout |-> timeout1],
       needsWrite |-> noAlias \/ noTarget \/ to = 0]

(***************************************************************************)
(* The gcp cloud run deployment of one function.  A resource created is a  *)
(* record of the call that made it, its name and, for the service account, *)
(* its account id.                                                         *)
(***************************************************************************)
\* utils.StringTrunc
StringTrunc(s, max) == IF Len(s) <= max THEN s ELSE SubSeq(s, 1, max)

Subacct == <<"s", "u", "b", "a", "c", "c", "t">>

accountIdUntruncated(id) == id \o Subacct

\* The AccountId of the service account made for the subscriptions.
accountIdOf(id) == StringTrunc(id, 30 - 8) \o Subacct

Resource(fn, id, accountId) == [fn |-> fn, name |-> id, AccountId |-> accountId]

RunnerDone(err, created) == [called |-> TRUE, err |-> err, created |-> created]

\* The loop over the topic triggers: the subscriptions created, and the
\* error that ended it.
RECURSIVE newSubscriptionsOf(_, _, _, _)
newSubscriptionsOf(id, triggers, topics, fail) ==
  IF triggers = <<>>
  THEN [err |-> "nil", created |-> <<>>]
  ELSE LET t == Head(triggers)
           sub == Str(id) \o "-" \o t \o "-sub"
       IN  IF t \in topics
           THEN IF fail = "NewSubscription"
                THEN [err |-> "subscription " \o sub \o ": " \o fail, created |-> <<>>]
                ELSE LET rest == newSubscriptionsOf(id, Tail(triggers), topics, "none")
                     IN  [err |-> rest.err,
                          created |-> <<Resource("pubsub.NewSubscription", sub, <<>>)>>
                                      \o rest.created]
           ELSE newSubscriptionsOf(id, Tail(triggers), topics, fail)

newCloudRunner(id, triggers, topics, fail) ==
  LET service == <<Resource("cloudrun.NewService", Str(id), <<>>)>>
      account == <<Resource("serviceaccount.NewAccount", Str(id \o Subacct),
                            accountIdOf(id))>>
      member == <<Resource("cloudrun.NewIamMember", Str(id) \o "-subrole", <<>>)>>
      subs == newSubscriptionsOf(id, triggers, topics, fail)
  IN  IF fail = "RegisterComponentResource"
      THEN RunnerDone(fail, <<>>)
      ELSE IF fail = "NewService"
      THEN RunnerDone("iam member " \o Str(id) \o ": " \o fail, <<>>)
      ELSE IF Len(triggers) > 0
      THEN IF fail = "NewAccount"
           THEN RunnerDone("invokerAccount " \o Str(id) \o ": " \o fail, service)
           ELSE IF fail = "NewIamMember"
           THEN RunnerDone("iam member " \o Str(id) \o ": " \o fail, service \o account)
           ELSE IF subs.err # "nil"
           THEN RunnerDone(subs.err, service \o account \o member \o subs.created)
           ELSE RunnerDone(IF fail = "RegisterResourceOutputs" THEN fail ELSE "nil",
                           service \o account \o member \o subs.created)
      ELSE RunnerDone(IF fail = "RegisterResourceOutputs" THEN fail ELSE "nil", service)

(***************************************************************************)
(* The launch methods of one Runtime instance in one environment.          *)
(***************************************************************************)
\* The environments a launch method can meet; the python variant reads none of it.
GoModules == {Failed, Ok(<<"m">>)}
GoPaths == {Failed, Ok(<<"/", "g">>)}
Cwds == {Failed, Ok(<<"/", "w">>)}

NoLaunch ==
  /\ runCtx = <<>>
  /\ goModule = Ok(<<>>)
  /\ goPath = Ok(<<>>)
  /\ cwd = Ok(<<>>)
  /\ optsCollect = NotCalled
  /\ optsFn = NotCalled
  /\ nameRet = NoName

NoRecipes ==
  /\ version = ""
  /\ provider = ""
  /\ manifestPresent = TRUE
  /\ newContainerFails = FALSE
  /\ writeFails = FALSE
  /\ recipeProd = NoRecipe
  /\ recipeDev = NoRecipe

NoRuntime ==
  /\ variant = "none"
  /\ rte = ""
  /\ handler = <<>>

InitIgnore ==
  /\ commonIgnore = commonIgnoreLiteral
  /\ ignoreRets = <<>>

NoCall == [op |-> "none", args |-> <<>>, calls |-> <<>>, answer |-> [val |-> "", err |-> "nil"],
           ret |-> [val |-> "", err |-> "nil"], exec |-> NoExec]

NoProvider ==
  /\ DefaultNitricVersion = ""
  /\ providerCalls = <<>>

NoStackCall == [fn |-> "none", provider |-> "", val |-> ""]

NoStack ==
  /\ stack = [Name |-> ""]
  /\ function = [name |-> "", Version |-> "", Tag |-> ""]
  /\ stackRet = NoStackCall
NoAliasRun == [name |-> "", args |-> <<>>, executed |-> <<>>]

NoAlias ==
  /\ aliases = <<>>
  /\ aliasString = <<>>
  /\ aliasCommands = {}
  /\ osArgs = <<>>
  /\ aliasRun = NoAliasRun
NoBuildProc ==
  /\ buildPc = "none"
  /\ buildRet = "none"
  /\ subproc = "none"
  /\ exitStatus = "nil"
  /\ startFails = FALSE
  /\ pendingOut = 0
  /\ osPipe = 0
  /\ copier = "none"
  /\ printer = "none"
  /\ printedOut = 0
NoProject ==
  [Functions |-> {}, Containers |-> {}, Buckets |-> {}, Queues |-> {}, Topics |-> {},
   Collections |-> {}, Schedules |-> {}, ApiDocs |-> {}]
NoDeploy == [called |-> FALSE, ret |-> "nil", panic |-> "", steps |-> <<>>]
NoValidate == [called |-> FALSE, isNil |-> TRUE, errs |-> <<>>, panic |-> ""]

NoAzure ==
  /\ proj = NoProject
  /\ failAt = "none"
  /\ deployRet = NoDeploy
  /\ sc = [Provider |-> "", Region |-> "", Extra |-> <<>>]
  /\ azOrg = ""
  /\ azAdminEmail = ""
  /\ validateRet = NoValidate
NoHealth == [done |-> FALSE, healthy |-> FALSE, err |-> <<>>]

NoLambda ==
  /\ arn = ""
  /\ invokes = <<>>
  /\ healthRet = NoHealth
NoSettings == [aliases |-> <<>>, targets |-> <<>>, build_timeout |-> [kind |-> "unset", val |-> 0]]

NoConfig ==
  /\ userConfig = NoSettings
  /\ viperConfig = NoSettings
  /\ configFile = NoSettings
  /\ writeConfigFails = FALSE
  /\ runWrote = <<>>
NoRunner == [called |-> FALSE, err |-> "nil", created |-> <<>>]

NoGcp ==
  /\ runnerName = <<>>
  /\ triggerTopics = <<>>
  /\ stackTopics = {}
  /\ runnerFailAt = "none"
  /\ runnerRet = NoRunner

\* The parts of the program this section of the model leaves at rest.
NoLater ==
  /\ NoStack
  /\ NoAlias
  /\ NoBuildProc
  /\ NoAzure
  /\ NoLambda
  /\ NoConfig
  /\ NoGcp

NoEngine ==
  /\ host = [podmanVersionOk |-> FALSE, dockerVersionOk |-> FALSE, dockerOut |-> <<>>,
             clientOk |-> FALSE, containerListOk |-> FALSE]
  /\ podmanRet = NoEngineYet
  /\ lastCall = NoCall

InitLaunch ==
  /\ variant \in {"golang", "python"}
  /\ rte = (IF variant = "golang" THEN "go" ELSE "py")
  /\ handler \in Handlers
  /\ runCtx \in RunCtxs
  /\ goModule \in GoModules
  /\ goPath \in GoPaths
  /\ cwd \in Cwds
  /\ variant = "python" => ~goModule.err /\ ~goPath.err /\ ~cwd.err
  /\ optsCollect = NotCalled
  /\ optsFn = NotCalled
  /\ nameRet = NoName
  /\ NoRecipes
  /\ InitIgnore
  /\ NoEngine
  /\ NoProvider
  /\ NoLater

LaunchOptsForFunctionCollect ==
  /\ variant \in {"golang", "python"}
  /\ optsCollect' =
       (IF variant = "golang"
          THEN golangLaunchOptsForFunctionCollect(rte, handler, runCtx, goModule, goPath)
        ELSE pythonLaunchOptsForFunctionCollect(rte, handler, runCtx))
  /\ UNCHANGED <<variant, rte, handler, runCtx, goModule, goPath, cwd, optsFn, nameRet>>
  /\ UNCHANGED <<recipeVars, ignoreVars, engineVars, providerVars, laterVars>>

LaunchOptsForFunction ==
  /\ variant \in {"golang", "python"}
  /\ optsFn' =
       (IF variant = "golang"
          THEN golangLaunchOptsForFunction(rte, handler, runCtx, goModule, goPath, cwd)
        ELSE pythonLaunchOptsForFunction(rte, handler, runCtx))
  /\ UNCHANGED <<variant, rte, handler, runCtx, goModule, goPath, cwd, optsCollect,
                 nameRet>>
  /\ UNCHANGED <<recipeVars, ignoreVars, engineVars, providerVars, laterVars>>

ContainerName ==
  /\ variant \in {"golang", "python"}
  /\ nameRet' =
       Named(IF variant = "golang" THEN golangContainerName(handler, cwd)
             ELSE pythonContainerName(handler))
  /\ UNCHANGED <<variant, rte, handler, runCtx, goModule, goPath, cwd, optsCollect, optsFn>>
  /\ UNCHANGED <<recipeVars, ignoreVars, engineVars, providerVars, laterVars>>

NextLaunch == LaunchOptsForFunctionCollect \/ LaunchOptsForFunction \/ ContainerName

SpecLaunch == InitLaunch /\ [][NextLaunch]_vars

(***************************************************************************)
(* The recipe methods of one Runtime instance (or of the javascript        *)
(* generator) for one version, provider and build context.                 *)
(***************************************************************************)
RecipeHandlers == SeqsUpTo(PathChars, MaxRecipeHandlerLen)
Versions == {"v1.2.3", "latest"}
Providers == {"aws", "gcp"}

InitRecipe ==
  /\ variant \in {"golang", "python", "javascript"}
  /\ rte = (IF variant = "golang" THEN "go" ELSE IF variant = "python" THEN "py" ELSE "js")
  /\ handler \in RecipeHandlers
  /\ version \in Versions
  /\ provider \in Providers
  /\ manifestPresent \in BOOLEAN
  /\ newContainerFails \in BOOLEAN
  /\ writeFails \in BOOLEAN
  /\ recipeProd = NoRecipe
  /\ recipeDev = NoRecipe
  /\ runCtx = <<>>
  /\ goModule = Ok(<<>>)
  /\ goPath = Ok(<<>>)
  /\ cwd = Ok(<<>>)
  /\ optsCollect = NotCalled
  /\ optsFn = NotCalled
  /\ nameRet = NoName
  /\ InitIgnore
  /\ NoEngine
  /\ NoProvider
  /\ NoLater

\* w.Write(text): the recipe reaches the writer whole, or the writer reports
\* an error after taking only a leading part of it.
WriteTo(res, outcome) ==
  IF ~res.wrote THEN outcome = res
  ELSE IF ~writeFails THEN outcome = res
  ELSE \E n \in 0..(Len(res.text) - 1) :
         outcome = [called |-> TRUE, err |-> "write", text |-> SubSeq(res.text, 1, n),
                    wrote |-> TRUE]

\* The builder is handed t.BuildIgnore() when the python container is created.
IgnoreAfterRecipe ==
  IF variant = "python" THEN pythonBuildIgnore(commonIgnore).common ELSE commonIgnore

FunctionDockerfile ==
  /\ variant \in {"golang", "python", "javascript"}
  /\ LET res == IF variant = "golang"
                  THEN golangFunctionDockerfile(handler, version, provider)
                ELSE IF variant = "python"
                  THEN pythonFunctionDockerfile(handler, version, provider,
                                                manifestPresent, newContainerFails)
                ELSE javascriptGenerator(handler, version, provider,
                                         manifestPresent, newContainerFails)
     IN  WriteTo(res, recipeProd')
  /\ commonIgnore' = IgnoreAfterRecipe
  /\ UNCHANGED <<version, provider, manifestPresent, newContainerFails, writeFails,
                 recipeDev, ignoreRets>>
  /\ UNCHANGED <<launchVars, engineVars, providerVars, laterVars>>

FunctionDockerfileForCodeAsConfig ==
  /\ variant \in {"golang", "python"}
  /\ LET res == IF variant = "golang"
                  THEN golangFunctionDockerfileForCodeAsConfig
                ELSE pythonFunctionDockerfileForCodeAsConfig(handler, manifestPresent,
                                                             newContainerFails)
     IN  WriteTo(res, recipeDev')
  /\ commonIgnore' = IgnoreAfterRecipe
  /\ UNCHANGED <<version, provider, manifestPresent, newContainerFails, writeFails,
                 recipeProd, ignoreRets>>
  /\ UNCHANGED <<launchVars, engineVars, providerVars, laterVars>>

NextRecipe == FunctionDockerfile \/ FunctionDockerfileForCodeAsConfig

SpecRecipe == InitRecipe /\ [][NextRecipe]_vars

(***************************************************************************)
(* BuildIgnore, called any number of times on instances of either variant. *)
(***************************************************************************)
InitBuildIgnore ==
  /\ NoRuntime
  /\ NoLaunch
  /\ NoRecipes
  /\ InitIgnore
  /\ NoEngine
  /\ NoProvider
  /\ NoLater

BuildIgnore ==
  /\ variant = "none"
  /\ Len(ignoreRets) < MaxIgnoreCalls
  /\ \E v \in {"golang", "python"} :
       LET r == IF v = "golang" THEN golangBuildIgnore(commonIgnore)
                ELSE pythonBuildIgnore(commonIgnore)
       IN  /\ ignoreRets' = Append(ignoreRets, [variant |-> v, list |-> r.ret])
           /\ commonIgnore' = r.common
  /\ UNCHANGED <<launchVars, recipeVars, engineVars, providerVars, laterVars>>

NextBuildIgnore == BuildIgnore

SpecBuildIgnore == InitBuildIgnore /\ [][NextBuildIgnore]_vars

(***************************************************************************)
(* The podman engine on one machine: construction, then any operation.     *)
(***************************************************************************)
DockerOutputs ==
  { <<>>,
    <<"p", "o", "d", "m", "a", "n", " ", "3">>,
    <<"e", "m", "u", " ", "p", "o", "d", "m", "a", "n">>,
    <<"P", "o", "d", "m", "a", "n">>,
    <<"D", "o", "c", "k", "e", "r", " ", "2", "0">> }

Hosts ==
  [podmanVersionOk : BOOLEAN, dockerVersionOk : BOOLEAN, dockerOut : DockerOutputs,
   clientOk : BOOLEAN, containerListOk : BOOLEAN]

\* Argument values, and what the embedded docker engine can answer.
ArgValues == {"u", "v"}
DockerAnswers == {[val |-> "r", err |-> "nil"], [val |-> "", err |-> "backend"]}
LogFiles == {Ok("run.log"), [err |-> TRUE, val |-> ""]}

ImageTags == {<<"a", "p", "p">>, <<"A", "p", "p">>, <<"a", "P", "P">>}
BuildArgKeys == {"K", "L"}
BuildArgValues == {"1", "2"}
BuildArgMaps == UNION {[ks -> BuildArgValues] : ks \in SUBSET BuildArgKeys}
Excludes == {<<>>, <<".git/">>}
ExecErrors == {"nil", "exec"}
\* What cmd.Start and cmd.Wait report: Wait is only called once Start succeeded.
ExecOutcomes ==
  {o \in ExecErrors \X ExecErrors : o[1] # "nil" => o[2] = "nil"}

\* The recipe path and the context directory Build is called with.
BuildTargets == {<<"Dockerfile", ".">>, <<"fn/dev.dockerfile", "fn">>}

\* What lies in a context directory: its files, and the ignore file that may
\* have been left there.
ContextFiles == {ContextFile(".git/", "config"), ContextFile("", "main.py")}
IgnoreFiles == {<<>>, <<".git/">>}

\* The orders in which a range over m can visit its keys.
Orders(m) ==
  {o \in SeqsUpTo(DOMAIN m, Cardinality(DOMAIN m)) :
     Len(o) = Cardinality(DOMAIN m) /\ {o[i] : i \in 1..Len(o)} = DOMAIN m}

InitEngine ==
  /\ host \in Hosts
  /\ podmanRet = NoEngineYet
  /\ lastCall = NoCall
  /\ NoRuntime
  /\ NoLaunch
  /\ NoRecipes
  /\ InitIgnore
  /\ NoProvider
  /\ NoLater

NewPodman ==
  /\ ~podmanRet.called
  /\ podmanRet' = newPodman(host)
  /\ UNCHANGED <<host, lastCall, launchVars, recipeVars, ignoreVars, providerVars, laterVars>>

Called(op, args, answer, did) ==
  /\ lastCall' = [op |-> op, args |-> args, calls |-> did.calls, answer |-> answer,
                  ret |-> did.ret, exec |-> did.exec]
  /\ UNCHANGED <<host, podmanRet, launchVars, recipeVars, ignoreVars, providerVars, laterVars>>

NoAnswer == [val |-> "", err |-> "nil"]

Type ==
  /\ podmanRet.engine = "podman"
  /\ Called("Type", <<>>, NoAnswer, podmanType)

Version ==
  /\ podmanRet.engine = "podman"
  /\ \E d \in DockerAnswers : Called("Version", <<>>, d, podmanVersion(d))

\* What the build subprocess reported to Build.
ExecAnswer(startErr, waitErr) ==
  [val |-> "", err |-> IF startErr # "nil" THEN startErr ELSE waitErr]

Build ==
  /\ podmanRet.engine = "podman"
  /\ \E target \in BuildTargets, imageTag \in ImageTags,
        buildArgs \in BuildArgMaps, excludes \in Excludes,
        outcome \in ExecOutcomes, ignoreFile \in IgnoreFiles :
       \E order \in Orders(buildArgs) :
         Called("Build", <<target[1], target[2], imageTag, buildArgs, excludes>>,
                ExecAnswer(outcome[1], outcome[2]),
                podmanBuild(target[1], target[2], imageTag, buildArgs, order, excludes,
                            outcome[1], outcome[2], ContextFiles, ignoreFile))

ListImages ==
  /\ podmanRet.engine = "podman"
  /\ \E a, b \in ArgValues, d \in DockerAnswers :
       Called("ListImages", <<a, b>>, d, podmanListImages(a, b, d))

ImagePull ==
  /\ podmanRet.engine = "podman"
  /\ \E a, b \in ArgValues, d \in DockerAnswers :
       Called("ImagePull", <<a, b>>, d, podmanImagePull(a, b, d))

ContainerCreate ==
  /\ podmanRet.engine = "podman"
  /\ \E a, b, c, n \in ArgValues, d \in DockerAnswers :
       Called("ContainerCreate", <<a, b, c, n>>, d, podmanContainerCreate(a, b, c, n, d))

Start ==
  /\ podmanRet.engine = "podman"
  /\ \E a \in ArgValues, d \in DockerAnswers :
       Called("Start", <<a>>, d, podmanStart(a, d))

Stop ==
  /\ podmanRet.engine = "podman"
  /\ \E a, b \in ArgValues, d \in DockerAnswers :
       Called("Stop", <<a, b>>, d, podmanStop(a, b, d))

ContainerWait ==
  /\ podmanRet.engine = "podman"
  /\ \E a, b \in ArgValues, d \in DockerAnswers :
       Called("ContainerWait", <<a, b>>, d, podmanContainerWait(a, b, d))

RemoveByLabel ==
  /\ podmanRet.engine = "podman"
  /\ \E a \in ArgValues, d \in DockerAnswers :
       Called("RemoveByLabel", <<a>>, d, podmanRemoveByLabel(a, d))

ContainerLogs ==
  /\ podmanRet.engine = "podman"
  /\ \E a, b \in ArgValues, d \in DockerAnswers :
       Called("ContainerLogs", <<a, b>>, d, podmanContainerLogs(a, b, d))

\* What utils.NewNitricLogFile reported to Logger.
LogFileAnswer(f) == [val |-> f.val, err |-> IF f.err THEN "logfile" ELSE "nil"]

Logger ==
  /\ podmanRet.engine = "podman"
  /\ \E a \in ArgValues, f \in LogFiles :
       Called("Logger", <<a>>, LogFileAnswer(f), podmanLogger(a, f))

NextEngine ==
  \/ NewPodman
  \/ Type
  \/ Version
  \/ Build
  \/ ListImages
  \/ ImagePull
  \/ ContainerCreate
  \/ Start
  \/ Stop
  \/ ContainerWait
  \/ RemoveByLabel
  \/ ContainerLogs
  \/ Logger

SpecEngine == InitEngine /\ [][NextEngine]_vars

(***************************************************************************)
(* Provider construction: any number of calls of NewProvider and           *)
(* ProviderFromFile for one embedded default version.                      *)
(***************************************************************************)
DefaultVersions == {"v0.0.1", "v0.0.1\n"}
ProviderNames == {"aws", "azure", "gcp", "nitric/aws@v9", "local", ""}
StackNames == {"stack"}
RemoteAnswers == {[val |-> "provider", err |-> "nil"], [val |-> "nil", err |-> "remote"]}

InitProvider ==
  /\ DefaultNitricVersion \in DefaultVersions
  /\ providerCalls = <<>>
  /\ NoRuntime
  /\ NoLaunch
  /\ NoRecipes
  /\ InitIgnore
  /\ NoEngine
  /\ NoLater

ProviderCalled(fn, name, prov, did) ==
  /\ providerCalls' = Append(providerCalls,
                             [fn |-> fn, name |-> name, provider |-> prov,
                              calls |-> did.calls, ret |-> did.ret])
  /\ UNCHANGED <<DefaultNitricVersion, launchVars, recipeVars, ignoreVars, engineVars,
                 laterVars>>

CallProviderFromFile ==
  /\ Len(providerCalls) < MaxProviderCalls
  /\ \E name \in StackNames, prov \in ProviderNames, answer \in RemoteAnswers :
       ProviderCalled("ProviderFromFile", name, prov,
                      ProviderFromFile("cfc", name, prov, "envMap", "opts",
                                       DefaultNitricVersion, answer))

CallNewProvider ==
  /\ Len(providerCalls) < MaxProviderCalls
  /\ \E name \in StackNames, prov \in ProviderNames, answer \in RemoteAnswers :
       ProviderCalled("NewProvider", name, prov,
                      NewProvider("cfc", name, prov, "envMap", "opts",
                                  DefaultNitricVersion, answer))

NextProvider == CallProviderFromFile \/ CallNewProvider

SpecProvider == InitProvider /\ [][NextProvider]_vars

(***************************************************************************)
(* The stack helpers: VersionString and ImageTagName called any number of  *)
(* times on one Function of one Stack.                                     *)
(***************************************************************************)
FunctionNames == {"f", "api"}
FunctionVersions == {"", "v9", "latest"}
FunctionTags == {"", "mytag", "t-aws"}
TagProviders == {"", "aws", "gcp"}

InitStack ==
  /\ stack \in [Name : {"s", "shop"}]
  /\ function \in [name : FunctionNames, Version : FunctionVersions, Tag : FunctionTags]
  /\ stackRet = NoStackCall
  /\ NoRuntime
  /\ NoLaunch
  /\ NoRecipes
  /\ InitIgnore
  /\ NoEngine
  /\ NoProvider
  /\ NoAlias
  /\ NoBuildProc
  /\ NoAzure
  /\ NoLambda
  /\ NoConfig
  /\ NoGcp

CallVersionString ==
  /\ stackRet' = [fn |-> "VersionString", provider |-> "",
                  val |-> VersionString(function, stack)]
  /\ UNCHANGED <<stack, function, coreVars, aliasVars, buildProcVars, azureVars,
                 lambdaVars, configVars, gcpVars>>

CallImageTagName ==
  /\ \E prov \in TagProviders :
       stackRet' = [fn |-> "ImageTagName", provider |-> prov,
                    val |-> ImageTagName(function, stack, prov)]
  /\ UNCHANGED <<stack, function, coreVars, aliasVars, buildProcVars, azureVars,
                 lambdaVars, configVars, gcpVars>>

NextStack == CallVersionString \/ CallImageTagName

SpecStack == InitStack /\ [][NextStack]_vars

(***************************************************************************)
(* Command aliases: init adds the alias commands of the configuration,     *)
(* then the command line names one of them.                                *)
(***************************************************************************)
AliasNames == {"new", "up", "ls"}
AliasStrings == {<<"s", " ", "c">>, <<"d", " ", "a">>, <<"b">>}
UserArgs == {<<>>, <<"-v">>, <<"x", "y">>}

\* ensureConfigDefaults has run: the alias new is configured.
AliasConfigs ==
  UNION {[S -> AliasStrings] : S \in {T \in SUBSET AliasNames : "new" \in T}}

InitAlias ==
  /\ aliases \in AliasConfigs
  /\ aliasString = <<>>
  /\ aliasCommands = {}
  /\ osArgs \in {<<"nitric", n>> \o args : n \in AliasNames, args \in UserArgs}
  /\ aliasRun = NoAliasRun
  /\ NoRuntime
  /\ NoLaunch
  /\ NoRecipes
  /\ InitIgnore
  /\ NoEngine
  /\ NoProvider
  /\ NoStack
  /\ NoBuildProc
  /\ NoAzure
  /\ NoLambda
  /\ NoConfig
  /\ NoGcp

AddAliases ==
  /\ aliasCommands = {}
  /\ \E order \in RangeOrders(DOMAIN aliases) :
       LET done == addAliases(aliases, order)
       IN  /\ aliasString' = done.aliasString
           /\ aliasCommands' = done.commands
  /\ UNCHANGED <<aliases, osArgs, aliasRun, coreVars, stackVars, buildProcVars, azureVars,
                 lambdaVars, configVars, gcpVars>>

\* The root command finds the alias command the command line names and
\* calls its Run function with the rest of the command line.
RunAlias ==
  /\ aliasCommands # {}
  /\ aliasRun = NoAliasRun
  /\ \E alias \in aliasCommands :
       /\ alias.Use = osArgs[2]
       /\ LET args == SubSeq(osArgs, 3, Len(osArgs))
               newArgs == aliasRunArgs(aliasString, args, osArgs)
           IN  /\ osArgs' = newArgs
               /\ aliasRun' = [name |-> alias.Use, args |-> args, executed |-> newArgs]
  /\ UNCHANGED <<aliases, aliasString, aliasCommands, coreVars, stackVars, buildProcVars,
                 azureVars, lambdaVars, configVars, gcpVars>>

NextAlias == AddAliases \/ RunAlias

SpecAlias == InitAlias /\ [][NextAlias]_vars

(***************************************************************************)
(* One call of podman Build as the goroutines and the subprocess it        *)
(* starts: the caller, the build subprocess, the goroutine of os/exec that *)
(* copies the subprocess's standard output into the writer end of the      *)
(* io.Pipe, and the goroutine that runs print on the reader end.  A Write  *)
(* on an io.Pipe returns when a Read has taken its data; a Read returns    *)
(* with data or when an end of the pipe is closed.                         *)
(***************************************************************************)
ExitStatuses == {"nil", "exit status 125"}

InitBuildProc ==
  /\ buildPc = "called"
  /\ buildRet = "none"
  /\ subproc = "none"
  /\ exitStatus \in ExitStatuses
  /\ startFails \in BOOLEAN
  /\ pendingOut \in 0..MaxOutput
  /\ osPipe = 0
  /\ copier = "none"
  /\ printer = "none"
  /\ printedOut = 0
  /\ NoRuntime
  /\ NoLaunch
  /\ NoRecipes
  /\ InitIgnore
  /\ NoEngine
  /\ NoProvider
  /\ NoStack
  /\ NoAlias
  /\ NoAzure
  /\ NoLambda
  /\ NoConfig
  /\ NoGcp

\* cmd.Start, and the return of its error
CmdStart ==
  /\ buildPc = "called"
  /\ IF startFails
     THEN /\ buildPc' = "returned"
          /\ buildRet' = "start error"
          /\ UNCHANGED <<subproc, copier>>
     ELSE /\ buildPc' = "started"
          /\ subproc' = "running"
          /\ copier' = "reading"
          /\ UNCHANGED buildRet
  /\ UNCHANGED <<exitStatus, startFails, pendingOut, osPipe, printer, printedOut,
                 coreVars, stackVars, aliasVars, azureVars, lambdaVars, configVars,
                 gcpVars>>

\* go print(reader)
GoPrint ==
  /\ buildPc = "started"
  /\ buildPc' = "waiting"
  /\ printer' = "reading"
  /\ UNCHANGED <<buildRet, subproc, exitStatus, startFails, pendingOut, osPipe, copier,
                 printedOut, coreVars, stackVars, aliasVars, azureVars, lambdaVars,
                 configVars, gcpVars>>

\* The subprocess writes a chunk to its standard output.
SubprocessWrite ==
  /\ subproc = "running"
  /\ pendingOut > 0
  /\ pendingOut' = pendingOut - 1
  /\ osPipe' = osPipe + 1
  /\ UNCHANGED <<buildPc, buildRet, subproc, exitStatus, startFails, copier, printer,
                 printedOut, coreVars, stackVars, aliasVars, azureVars, lambdaVars,
                 configVars, gcpVars>>

\* The subprocess exits, which closes its standard output.
SubprocessExit ==
  /\ subproc = "running"
  /\ pendingOut = 0
  /\ subproc' = "exited"
  /\ UNCHANGED <<buildPc, buildRet, exitStatus, startFails, pendingOut, osPipe, copier,
                 printer, printedOut, coreVars, stackVars, aliasVars, azureVars,
                 lambdaVars, configVars, gcpVars>>

\* The copying goroutine reads a chunk and calls writer.Write with it.
CopyRead ==
  /\ copier = "reading"
  /\ osPipe > 0
  /\ osPipe' = osPipe - 1
  /\ copier' = "writing"
  /\ UNCHANGED <<buildPc, buildRet, subproc, exitStatus, startFails, pendingOut,
                 printer, printedOut, coreVars, stackVars, aliasVars, azureVars,
                 lambdaVars, configVars, gcpVars>>

\* The copying goroutine reads the end of the subprocess's output and ends.
CopyEnd ==
  /\ copier = "reading"
  /\ osPipe = 0
  /\ subproc = "exited"
  /\ copier' = "done"
  /\ UNCHANGED <<buildPc, buildRet, subproc, exitStatus, startFails, pendingOut,
                 osPipe, printer, printedOut, coreVars, stackVars, aliasVars, azureVars,
                 lambdaVars, configVars, gcpVars>>

\* print reads from the reader end the chunk a Write is offering, which
\* lets that Write return.  No step lets a Read return without data: Build
\* closes neither end of the pipe.
PrintRead ==
  /\ printer = "reading"
  /\ copier = "writing"
  /\ copier' = "reading"
  /\ printedOut' = printedOut + 1
  /\ UNCHANGED <<buildPc, buildRet, subproc, exitStatus, startFails, pendingOut,
                 osPipe, printer, coreVars, stackVars, aliasVars, azureVars,
                 lambdaVars, configVars, gcpVars>>

\* return cmd.Wait(): the subprocess has exited and the copying goroutine
\* has ended.
CmdWait ==
  /\ buildPc = "waiting"
  /\ subproc = "exited"
  /\ copier = "done"
  /\ buildPc' = "returned"
  /\ buildRet' = exitStatus
  /\ UNCHANGED <<subproc, exitStatus, startFails, pendingOut, osPipe, copier, printer,
                 printedOut, coreVars, stackVars, aliasVars, azureVars, lambdaVars,
                 configVars, gcpVars>>

NextBuildProc ==
  \/ CmdStart
  \/ GoPrint
  \/ SubprocessWrite
  \/ SubprocessExit
  \/ CopyRead
  \/ CopyEnd
  \/ PrintRead
  \/ CmdWait

SpecBuildProc == InitBuildProc /\ [][NextBuildProc]_vars

\* Every goroutine and the subprocess keep running while they can take a
\* step.
FairSpecBuildProc ==
  /\ SpecBuildProc
  /\ WF_vars(CmdStart)
  /\ WF_vars(GoPrint)
  /\ WF_vars(SubprocessWrite)
  /\ WF_vars(SubprocessExit)
  /\ WF_vars(CopyRead)
  /\ WF_vars(CopyEnd)
  /\ WF_vars(PrintRead)
  /\ WF_vars(CmdWait)

(***************************************************************************)
(* Azure Deploy: one call for one project, with at most one of its steps   *)
(* reporting an error.                                                     *)
(***************************************************************************)
DeploySchedules ==
  {{}, {[Name |-> "s", Type |-> "function", Target |-> "f"]},
   {[Name |-> "s", Type |-> "function", Target |-> "g"]},
   {[Name |-> "s", Type |-> "topic", Target |-> "t"]}}

Projects ==
  [Functions : SUBSET {"f"}, Containers : SUBSET {"c"}, Buckets : SUBSET {"b"},
   Queues : {{}}, Topics : SUBSET {"t"}, Collections : SUBSET {"k"},
   Schedules : DeploySchedules, ApiDocs : SUBSET {"api"}]

FailPoints ==
  {"none", "os.MkdirTemp", "GetClientConfig", "NewResourceGroup", "NewVault",
   "newStorageResources", "NewTopic", "newMongoCollections", "NewUserAssignedIdentity",
   "newContainerApps", "newSubscriptions", "RegisterComponentResource",
   "NewDaprComponent", "newAzureApiManagement"}

InitAzureDeploy ==
  /\ proj \in Projects
  /\ failAt \in FailPoints
  /\ deployRet = NoDeploy
  /\ sc = [Provider |-> "", Region |-> "", Extra |-> <<>>]
  /\ azOrg = ""
  /\ azAdminEmail = ""
  /\ validateRet = NoValidate
  /\ NoRuntime
  /\ NoLaunch
  /\ NoRecipes
  /\ InitIgnore
  /\ NoEngine
  /\ NoProvider
  /\ NoStack
  /\ NoAlias
  /\ NoBuildProc
  /\ NoLambda
  /\ NoConfig
  /\ NoGcp

Deploy ==
  /\ ~deployRet.called
  /\ deployRet' = azureDeploy(proj, failAt)
  /\ UNCHANGED <<proj, failAt, sc, azOrg, azAdminEmail, validateRet, coreVars,
                 stackVars, aliasVars, buildProcVars, lambdaVars, configVars, gcpVars>>

NextAzureDeploy == Deploy

SpecAzureDeploy == InitAzureDeploy /\ [][NextAzureDeploy]_vars

(***************************************************************************)
(* Azure Validate: calls of Validate on a provider with one stack          *)
(* configuration.                                                          *)
(***************************************************************************)
ValidateRegions == {"", "eastus", "westus", "eastus3", "EastUS"}
ExtraValues == {StringValue("acme"), StringValue(""), IntValue("42")}
Extras == UNION {[S -> ExtraValues] : S \in SUBSET {"org", "adminemail"}}

InitAzureValidate ==
  /\ sc \in [Provider : {"azure"}, Region : ValidateRegions, Extra : Extras]
  /\ azOrg = ""
  /\ azAdminEmail = ""
  /\ validateRet = NoValidate
  /\ proj = NoProject
  /\ failAt = "none"
  /\ deployRet = NoDeploy
  /\ NoRuntime
  /\ NoLaunch
  /\ NoRecipes
  /\ InitIgnore
  /\ NoEngine
  /\ NoProvider
  /\ NoStack
  /\ NoAlias
  /\ NoBuildProc
  /\ NoLambda
  /\ NoConfig
  /\ NoGcp

Validate ==
  /\ LET did == azureValidate(sc, azOrg, azAdminEmail)
     IN  /\ validateRet' = did.ret
         /\ azOrg' = did.org
         /\ azAdminEmail' = did.adminEmail
  /\ UNCHANGED <<proj, failAt, deployRet, sc, coreVars, stackVars, aliasVars,
                 buildProcVars, lambdaVars, configVars, gcpVars>>

NextAzureValidate == Validate

SpecAzureValidate == InitAzureValidate /\ [][NextAzureValidate]_vars

(***************************************************************************)
(* The lambda health check: retry.Do invoking the function, each           *)
(* invocation answered by the service with success or with an error.       *)
(***************************************************************************)
Arns == {"arn:aws:lambda:f", "arn:aws:lambda:g"}
InvokeErrs == {"nil", "ResourceNotFound", "TooManyRequests", "ServiceException"}

InitLambda ==
  /\ arn \in Arns
  /\ invokes = <<>>
  /\ healthRet = NoHealth
  /\ NoRuntime
  /\ NoLaunch
  /\ NoRecipes
  /\ InitIgnore
  /\ NoEngine
  /\ NoProvider
  /\ NoStack
  /\ NoAlias
  /\ NoBuildProc
  /\ NoAzure
  /\ NoConfig
  /\ NoGcp

\* args.Client.Invoke, called by retry.Do
HealthInvoke ==
  /\ ~healthRet.done
  /\ retryAgain(invokes, Attempts)
  /\ \E err \in InvokeErrs :
       invokes' = Append(invokes, [FunctionName |-> arn, err |-> err])
  /\ UNCHANGED <<arn, healthRet, coreVars, stackVars, aliasVars, buildProcVars,
                 azureVars, configVars, gcpVars>>

\* retry.Do returns and the health check returns.
HealthReturn ==
  /\ ~healthRet.done
  /\ ~retryAgain(invokes, Attempts)
  /\ healthRet' = isHealthy(retryErr(invokes))
  /\ UNCHANGED <<arn, invokes, coreVars, stackVars, aliasVars, buildProcVars,
                 azureVars, configVars, gcpVars>>

NextLambda == HealthInvoke \/ HealthReturn

SpecLambda == InitLambda /\ [][NextLambda]_vars

(***************************************************************************)
(* Configuration defaults: runs of ensureConfigDefaults on the             *)
(* configuration viper read.                                               *)
(***************************************************************************)
UserAliases == UNION {[S -> {"stack create", "run"}] : S \in SUBSET {"new", "up"}}
UserTargets == UNION {[S -> {"provider: local", "provider: aws"}] : S \in SUBSET {"local", "prod"}}
UserTimeouts == {Unset, Duration(0), Duration(90), NoDuration}

InitConfig ==
  /\ userConfig \in [aliases : UserAliases, targets : UserTargets, build_timeout : UserTimeouts]
  /\ viperConfig = userConfig
  /\ configFile = userConfig
  /\ writeConfigFails \in BOOLEAN
  /\ runWrote = <<>>
  /\ NoRuntime
  /\ NoLaunch
  /\ NoRecipes
  /\ InitIgnore
  /\ NoEngine
  /\ NoProvider
  /\ NoStack
  /\ NoAlias
  /\ NoBuildProc
  /\ NoAzure
  /\ NoLambda
  /\ NoGcp

EnsureConfigDefaults ==
  /\ Len(runWrote) < MaxRuns
  /\ LET did == ensureConfigDefaults(viperConfig)
     IN  /\ viperConfig' = did.config
         /\ runWrote' = Append(runWrote, did.needsWrite)
         /\ configFile' = IF did.needsWrite /\ ~writeConfigFails THEN did.config
                          ELSE configFile
  /\ UNCHANGED <<userConfig, writeConfigFails, coreVars, stackVars, aliasVars,
                 buildProcVars, azureVars, lambdaVars, gcpVars>>

NextConfig == EnsureConfigDefaults

SpecConfig == InitConfig /\ [][NextConfig]_vars

(***************************************************************************)
(* newCloudRunner: one call for one function name, with at most one of its *)
(* steps reporting an error.                                               *)
(***************************************************************************)
NameChars == <<"f", "u", "n", "c", "-", "0", "1", "2", "3", "4">>
NameOfLen(n) == [i \in 1..n |-> NameChars[((i - 1) % Len(NameChars)) + 1]]
RunnerNames == {NameOfLen(n) : n \in 0..MaxNameLen}
RunnerFailPoints ==
  {"none", "RegisterComponentResource", "NewService", "NewAccount", "NewIamMember",
   "NewSubscription", "RegisterResourceOutputs"}

InitGcp ==
  /\ runnerName \in RunnerNames
  /\ triggerTopics \in {<<>>, <<"t">>, <<"u", "t">>}
  /\ stackTopics \in SUBSET {"t"}
  /\ runnerFailAt \in RunnerFailPoints
  /\ runnerRet = NoRunner
  /\ NoRuntime
  /\ NoLaunch
  /\ NoRecipes
  /\ InitIgnore
  /\ NoEngine
  /\ NoProvider
  /\ NoStack
  /\ NoAlias
  /\ NoBuildProc
  /\ NoAzure
  /\ NoLambda
  /\ NoConfig

NewCloudRunner ==
  /\ ~runnerRet.called
  /\ runnerRet' = newCloudRunner(runnerName, triggerTopics, stackTopics, runnerFailAt)
  /\ UNCHANGED <<runnerName, triggerTopics, stackTopics, runnerFailAt, coreVars,
                 stackVars, aliasVars, buildProcVars, azureVars, lambdaVars, configVars>>

NextGcp == NewCloudRunner

SpecGcp == InitGcp /\ [][NextGcp]_vars

(***************************************************************************)
(* Properties of the launch methods (checked under SpecLaunch).            *)
(***************************************************************************)

\* p is a proper leading directory of q.
IsPathPrefix(p, q) ==
  /\ p # <<>>
  /\ HasPrefix(q, p)
  /\ Len(q) > Len(p)
  /\ (p[Len(p)] = "/" \/ q[Len(p) + 1] = "/")

RunCtxMounts(res) ==
  {i \in 1..Len(res.opts.Mounts) : res.opts.Mounts[i].Source = runCtx}

TargetMatchesWD(res) ==
  /\ RunCtxMounts(res) # {}
  /\ \A i \in RunCtxMounts(res) :
        \/ res.opts.Mounts[i].Target = res.opts.TargetWD
        \/ IsPathPrefix(res.opts.Mounts[i].Target, res.opts.TargetWD)

\* C8: for every variant, handler and run context, a successful
\* LaunchOptsForFunctionCollect or LaunchOptsForFunction mounts the run
\* context at TargetWD or at a leading directory of it, and the two methods
\* give the same target and the same TargetWD.
C8_MountTargetIsTargetWD ==
  /\ (optsCollect.called /\ optsCollect.err = "nil") => TargetMatchesWD(optsCollect)
  /\ (optsFn.called /\ optsFn.err = "nil") => TargetMatchesWD(optsFn)
  /\ (optsCollect.called /\ optsCollect.err = "nil" /\ optsFn.called /\ optsFn.err = "nil") =>
        /\ optsCollect.opts.TargetWD = optsFn.opts.TargetWD
        /\ \A i \in RunCtxMounts(optsCollect), j \in RunCtxMounts(optsFn) :
              optsCollect.opts.Mounts[i].Target = optsFn.opts.Mounts[j].Target

\* C8 witness: both methods succeeded on a golang handler.
C8_Witness ==
  /\ variant = "golang"
  /\ optsCollect.called /\ optsCollect.err = "nil"
  /\ optsFn.called /\ optsFn.err = "nil"
  /\ optsFn.opts.TargetWD = <<"/", "g", "o", "/", "s", "r", "c", "/", "m">>

\* C10: for the python variant and a handler given relative to the run
\* context, LaunchOptsForFunction returns the command
\* ["-m", "jurigged", "-v", "/app/" + handler], the working directory /app
\* and exactly one mount, a bind mount of the run context on /app.
C10_PythonLaunchOpts ==
  (variant = "python" /\ optsFn.called /\ ~IsAbs(handler)) =>
    /\ optsFn.err = "nil"
    /\ optsFn.opts.Cmd = <<"-m", "jurigged", "-v", "/app/" \o Str(handler)>>
    /\ optsFn.opts.TargetWD = <<"/", "a", "p", "p">>
    /\ optsFn.opts.Mounts =
         <<[Type |-> "bind", Source |-> runCtx, Target |-> <<"/", "a", "p", "p">>]>>

\* C10 witness: the python variant launched the relative handler "a/.a".
C10_Witness ==
  /\ variant = "python" /\ optsFn.called
  /\ handler = <<"a", "/", ".", "a">>
  /\ optsFn.opts.Cmd[4] = "/app/a/.a"

(***************************************************************************)
(* Properties of the recipes (checked under SpecRecipe).                   *)
(***************************************************************************)
HasLine(text, str) == \E i \in 1..Len(text) : LineText(text[i]) = str

\* The statements of a recipe with the given instruction.
Statements(text, instr) ==
  {i \in 1..Len(text) : text[i] # <<>> /\ text[i][1] = instr}

\* line holds the pieces of url, in order and side by side.
RefersTo(line, url) ==
  \E k \in 0..(Len(line) - Len(url)) : SubSeq(line, k + 1, k + Len(url)) = url

PiecesOf(line) == {line[i] : i \in 1..Len(line)}

C7_DevRecipeHasNoSidecar ==
  recipeDev.called =>
    /\ Statements(recipeDev.text, "ADD") = {}
    /\ Statements(recipeDev.text, "ENTRYPOINT") = {}
    /\ \A i \in 1..Len(recipeDev.text) :
         PiecesOf(recipeDev.text[i]) \cap
           ({"/usr/local/bin/membrane", "/bin/membrane"}
              \cup PiecesOf(membraneUrl(version, provider))) = {}

\* C7 witness: the python variant wrote its whole development recipe.
C7_Witness ==
  /\ variant = "python" /\ recipeDev.called /\ recipeDev.err = "nil"
  /\ HasLine(recipeDev.text, "RUN pip install jurigged")
  /\ HasLine(recipeDev.text, "CMD python " \o Str(handler))

\* The lines of the last build stage: from the last FROM statement on.
FinalStage(text) ==
  LET froms == Statements(text, "FROM")
      last == CHOOSE i \in froms : \A j \in froms : j <= i
  IN  SubSeq(text, last, Len(text))

\* C9: the golang production recipe is a two-stage build, a stage named build
\* and a final stage; the final stage ADDs the sidecar from a URL holding the
\* given version and provider, copies the compiled binary from the build
\* stage, and has the sidecar as ENTRYPOINT and the compiled binary as CMD.
C9_GolangProdRecipe ==
  (variant = "golang" /\ recipeProd.called /\ recipeProd.err = "nil") =>
    LET text == recipeProd.text
        final == FinalStage(text)
    IN  /\ Cardinality(Statements(text, "FROM")) = 2
        /\ \E i \in Statements(text, "FROM") :
             LineText(text[i]) = "FROM golang:alpine as build"
        /\ LineText(final[1]) = "FROM alpine"
        /\ \E i \in Statements(final, "ADD") :
             /\ final[i] = <<"ADD", " ">> \o membraneUrl(version, provider)
                             \o <<" ", "/bin/membrane">>
             /\ {version, provider} \subseteq PiecesOf(final[i])
        /\ HasLine(final, "COPY --from=build /bin/main /bin/main")
        /\ HasLine(final, "ENTRYPOINT /bin/membrane")
        /\ HasLine(final, "CMD /bin/main")
        /\ HasLine(text, "RUN --mount=type=cache,target=/root/.cache/go-build go build -o /bin/main ./"
                           \o Str(Dir(handler)) \o "/...")

\* C9 witness: the golang recipe for handler a/, version v1.2.3, provider aws.
C9_Witness ==
  /\ variant = "golang" /\ recipeProd.called /\ recipeProd.err = "nil"
  /\ version = "v1.2.3" /\ provider = "aws" /\ handler = <<"a", "/">>
  /\ Len(recipeProd.text) = Len(prodDockerfile)

(***************************************************************************)
(* Properties of BuildIgnore (checked under SpecBuildIgnore).              *)
(***************************************************************************)
Baseline == {".nitric/", ".git/", ".idea/"}

\* C4: for every variant, what BuildIgnore returns holds every pattern of the
\* common baseline, every call of a variant returns the same list, and the
\* shared baseline list is never modified.
C4_BuildIgnoreSupersetAndStable ==
  /\ \A i \in 1..Len(ignoreRets) :
       Baseline \subseteq {ignoreRets[i].list[k] : k \in 1..Len(ignoreRets[i].list)}
  /\ \A i, j \in 1..Len(ignoreRets) :
       ignoreRets[i].variant = ignoreRets[j].variant => ignoreRets[i].list = ignoreRets[j].list
  /\ SliceElems(commonIgnore) = SliceElems(commonIgnoreLiteral)

(***************************************************************************)
(* Properties of the podman engine (checked under SpecEngine).             *)
(***************************************************************************)
\* The positions of the --build-arg options among the subprocess arguments.
BuildArgPositions(args) == {i \in 1..(Len(args) - 1) : args[i] = "--build-arg"}

\* C1: for every buildArgs map, Build passes each entry (k, v) to the build
\* subprocess as one --build-arg option whose value is k, '=', v, and passes
\* no other --build-arg option.
C1_BuildArgsAreKeyValuePairs ==
  lastCall.op = "Build" =>
    LET buildArgs == lastCall.args[4]
        args == lastCall.exec.args
    IN  /\ \A k \in DOMAIN buildArgs :
             Cardinality({i \in BuildArgPositions(args) :
                            args[i + 1] = k \o "=" \o buildArgs[k]}) = 1
        /\ Cardinality(BuildArgPositions(args)) = Cardinality(DOMAIN buildArgs)

\* The `docker --version` outputs of the model that hold the word podman.
ShimOutputs ==
  { <<"p", "o", "d", "m", "a", "n", " ", "3">>,
    <<"e", "m", "u", " ", "p", "o", "d", "m", "a", "n">> }

\* C2: newPodman returns an engine, and then a nil error, exactly when
\* `podman --version` succeeds, `docker --version` succeeds with an output
\* holding "podman", the client is constructed and the container-list probe
\* succeeds; when both version commands succeed and the output of
\* `docker --version` does not hold "podman", it returns no engine and the
\* 'both found' error.
C2_NewPodmanDetection ==
  podmanRet.called =>
    /\ (podmanRet.engine = "podman") <=>
         (/\ host.podmanVersionOk
          /\ host.dockerVersionOk
          /\ host.dockerOut \in ShimOutputs
          /\ host.clientOk
          /\ host.containerListOk)
    /\ (podmanRet.engine = "podman") <=> (podmanRet.err = "nil")
    /\ (host.podmanVersionOk /\ host.dockerVersionOk /\ host.dockerOut \notin ShimOutputs) =>
         /\ podmanRet.engine = "nil"
         /\ podmanRet.err = "both podman and docker found, will use docker"

\* C2 witness: the true docker answered `docker --version`, everything else
\* was in order, and newPodman refused.
C2_Witness ==
  /\ podmanRet.called
  /\ host.podmanVersionOk /\ host.dockerVersionOk /\ host.clientOk /\ host.containerListOk
  /\ host.dockerOut = <<"D", "o", "c", "k", "e", "r", " ", "2", "0">>
  /\ podmanRet.engine = "nil"

\* An operation that only hands its arguments to the same operation of the
\* embedded docker engine and returns its answer.
IsDirectForward(call) ==
  /\ call.calls = <<[op |-> call.op, args |-> call.args]>>
  /\ call.ret = call.answer
  /\ ~call.exec.ran /\ call.exec.args = <<>>

ListedOperations ==
  {"ListImages", "ImagePull", "ContainerCreate", "Start", "Stop", "ContainerWait",
   "RemoveByLabel", "ContainerLogs", "Logger"}

\* C3 as claimed: every operation other than Build, Logger among them, is a
\* direct forward to the embedded docker engine.
C3_AllButBuildForward ==
  lastCall.op \in ListedOperations => IsDirectForward(lastCall)

\* C3, amended: ListImages, ImagePull, ContainerCreate, Start, Stop,
\* ContainerWait, RemoveByLabel, ContainerLogs and Version are direct forwards
\* to the embedded docker engine; Build, Logger and Type are the podman
\* engine's own and make no call on the embedded engine.
C3_ForwardsExceptBuildAndLogger ==
  /\ lastCall.op \in (ListedOperations \ {"Logger"}) \cup {"Version"} =>
       IsDirectForward(lastCall)
  /\ lastCall.op \in {"Build", "Logger", "Type"} => lastCall.calls = <<>>

\* C3 witness: Stop was forwarded and the embedded engine answered with an
\* error, which Stop returned.
C3_Witness ==
  /\ lastCall.op = "Stop"
  /\ lastCall.answer.err = "backend"
  /\ lastCall.ret.err = "backend"
  /\ lastCall.calls = <<[op |-> "Stop", args |-> <<"u", "v">>]>>

\* C11: whenever Build is given a non-empty excludes list and the build
\* runs, no file matching one of the patterns is in the build context the
\* podman subprocess works on.
C11_BuildAppliesExcludes ==
  (lastCall.op = "Build" /\ lastCall.exec.ran /\ lastCall.args[5] # <<>>) =>
    \A f \in lastCall.exec.context :
      \A i \in 1..Len(lastCall.args[5]) : ~Matches(lastCall.args[5][i], f)

\* C12: for every imageTag, Build runs `podman build <path> -f <dockerfile>
\* -t <tag>` with the recipe path and the context directory as they were
\* given and the tag in lower case: every tag of the model is a spelling of
\* "app", so all of them build the image name app.
C12_BuildTagIsLowerCased ==
  lastCall.op = "Build" =>
    /\ lastCall.exec.name = "podman"
    /\ Len(lastCall.exec.args) >= 6
    /\ SubSeq(lastCall.exec.args, 1, 6) =
         <<"build", lastCall.args[2], "-f", lastCall.args[1], "-t", "app">>

\* C12 witness: the tag aPP was built from fn/dev.dockerfile in fn as app.
C12_Witness ==
  /\ lastCall.op = "Build" /\ lastCall.exec.ran
  /\ lastCall.args[3] = <<"a", "P", "P">>
  /\ lastCall.args[1] = "fn/dev.dockerfile" /\ lastCall.args[2] = "fn"
  /\ lastCall.exec.args[6] = "app"

(***************************************************************************)
(* Properties of ContainerName (checked under SpecLaunch).                 *)
(***************************************************************************)
\* The elements of the absolute form of the handler, normalised.
AbsHandlerElems ==
  CleanElems(Split(IF IsAbs(handler) THEN handler
                   ELSE cwd.val \o <<"/">> \o handler), <<>>, TRUE)

\* C13: golang ContainerName returns a string and no error: when the
\* absolute path of the handler can be resolved (the handler is absolute or
\* the working directory is known) the string is the name of the directory
\* above the handler, the root being named "/", and when it cannot the
\* string is empty.
C13_GolangContainerName ==
  (variant = "golang" /\ nameRet.called) =>
    /\ DOMAIN nameRet = {"called", "val"}
    /\ IF IsAbs(handler) \/ ~cwd.err
         THEN nameRet.val =
                (IF Len(AbsHandlerElems) >= 2
                   THEN Str(AbsHandlerElems[Len(AbsHandlerElems) - 1])
                 ELSE "/")
       ELSE nameRet.val = ""

\* C13 witness: the working directory is unknown, the handler a/a is
\* relative, and ContainerName returned the empty string.
C13_Witness ==
  /\ variant = "golang" /\ nameRet.called
  /\ cwd.err /\ handler = <<"a", "/", "a">>
  /\ nameRet.val = ""

\* C14: for every handler, python ContainerName returns the base name of the
\* handler without the handler's extension, the suffix from its last dot on:
\* the base name cut at the start of that suffix.
C14_PythonContainerName ==
  (variant = "python" /\ nameRet.called) =>
    LET base == Base(handler)
        ext == Ext(handler)
    IN  nameRet.val =
          (IF Len(ext) <= Len(base) /\ SubSeq(base, Len(base) - Len(ext) + 1, Len(base)) = ext
             THEN Str(SubSeq(base, 1, Len(base) - Len(ext)))
           ELSE Str(base))

(***************************************************************************)
(* Error handling of the launch methods (checked under SpecLaunch).        *)
(***************************************************************************)
\* The first failure golang LaunchOptsForFunctionCollect meets.
CollectFailure ==
  IF goModule.err THEN "module" ELSE IF goPath.err THEN "gopath" ELSE "nil"

\* The first failure golang LaunchOptsForFunction meets.
FunctionFailure ==
  IF goModule.err THEN "module"
  ELSE IF HasPrefix(handler, runCtx) /\ Rel(runCtx, handler).err THEN "rel"
  ELSE IF goPath.err THEN "gopath"
  ELSE "nil"

\* C15: in the golang variant, when the module name, the GOPATH or the
\* relative path of the handler cannot be resolved, LaunchOptsForFunction
\* and LaunchOptsForFunctionCollect return that error and the zero Launch
\* Options; they return populated Launch Options only with a nil error.
C15_GolangLaunchErrorsPropagate ==
  variant = "golang" =>
    /\ optsCollect.called =>
         /\ optsCollect.err = CollectFailure
         /\ (optsCollect.err # "nil") <=> (optsCollect.opts = ZeroLaunchOpts)
         /\ (optsCollect.err = "nil") => optsCollect.opts.TargetWD # <<>>
    /\ optsFn.called =>
         /\ optsFn.err = FunctionFailure
         /\ (optsFn.err # "nil") <=> (optsFn.opts = ZeroLaunchOpts)
         /\ (optsFn.err = "nil") => optsFn.opts.TargetWD # <<>>

\* C15 witness: the module name and the GOPATH are known, the handler /a
\* cannot be made relative to the empty run context, and
\* LaunchOptsForFunction returned that error with the zero Launch Options.
C15_Witness ==
  /\ variant = "golang" /\ optsFn.called
  /\ ~goModule.err /\ ~goPath.err
  /\ runCtx = <<>> /\ handler = <<"/", "a">>
  /\ optsFn.err = "rel" /\ optsFn.opts = ZeroLaunchOpts

(***************************************************************************)
(* Error handling of the podman engine (checked under SpecEngine).         *)
(***************************************************************************)
\* C16: whatever operation of the podman engine is called, an error its
\* collaborator reports (the embedded engine, the build subprocess, the
\* log-file helper of Logger) is the error the operation returns.
C16_NoErrorDiscarded ==
  (lastCall.op # "none" /\ lastCall.answer.err # "nil") =>
    lastCall.ret.err = lastCall.answer.err

(***************************************************************************)
(* Failures of the recipe methods (checked under SpecRecipe).              *)
(***************************************************************************)
\* The builder step that reports an error in this build context, if any:
\* the container cannot be created, or the manifest a copy step names is
\* missing.  The golang recipes are fixed texts and use no builder.
FailingStep ==
  IF variant = "golang" THEN "nil"
  ELSE IF newContainerFails THEN "newContainer"
  ELSE IF ~manifestPresent THEN "copy"
  ELSE "nil"

NothingWrittenOnFailure(res) ==
  (res.called /\ FailingStep # "nil") =>
    /\ res.err = FailingStep
    /\ ~res.wrote
    /\ res.text = <<>>

\* C17: when container creation or a copy step reports an error,
\* FunctionDockerfile and FunctionDockerfileForCodeAsConfig return that error
\* and nothing has reached the writer: a recipe is written only when every
\* builder step succeeded.
C17_NothingWrittenOnFailure ==
  /\ NothingWrittenOnFailure(recipeProd)
  /\ NothingWrittenOnFailure(recipeDev)

(***************************************************************************)
(* The handler and the image of the launch methods (checked under          *)
(* SpecLaunch).                                                            *)
(***************************************************************************)
\* The last word of the command of a result.
LastWord(res) == res.opts.Cmd[Len(res.opts.Cmd)]

\* The handler as the container sees it when the run context is mounted on
\* /app: /app/ and the handler relative to the run context, in any spelling
\* that names the same file.
HandlerUnderMount ==
  LET inMount(q) == Clean(AppDir \o <<"/">> \o q)
  IN  {"/app/" \o Str(q) : q \in {h \in Handlers :
                                     inMount(h) = inMount(Rel(runCtx, handler).val)}}

\* C18: in the python variant, when the handler lies under the run context
\* (the run context is a proper leading directory of the handler path,
\* absolute or not), the handler path in the command of
\* LaunchOptsForFunction and of LaunchOptsForFunctionCollect is /app/
\* followed by the handler relative to the run context.
C18_PythonHandlerRelativeToMount ==
  (variant = "python" /\ IsPathPrefix(runCtx, handler) /\ ~Rel(runCtx, handler).err) =>
    /\ optsFn.called => LastWord(optsFn) \in HandlerUnderMount
    /\ optsCollect.called => LastWord(optsCollect) \in HandlerUnderMount

\* C19: for every variant, the image of every Launch Options value that
\* LaunchOptsForFunction or LaunchOptsForFunctionCollect returns without an
\* error is the development image name of the variant, nitric-<tag>-dev.
C19_ImageIsDevImageName ==
  /\ (optsFn.called /\ optsFn.err = "nil") =>
       optsFn.opts.Image = "nitric-" \o rte \o "-dev"
  /\ (optsCollect.called /\ optsCollect.err = "nil") =>
       optsCollect.opts.Image = "nitric-" \o rte \o "-dev"

(***************************************************************************)
(* Properties of provider construction (checked under SpecProvider).       *)
(***************************************************************************)
\* The reference a call handed to the remote provider package.
ReferenceOf(call) == call.calls[1].args[3]

\* C20: NewProvider and ProviderFromFile hand the same provider reference
\* to the remote provider package: nitric/<provider>@<default version> for
\* aws, azure and gcp, and the provider string itself for any other; each
\* makes one remote call and returns what it answers.
C20_ProviderReference ==
  /\ \A i \in 1..Len(providerCalls) :
       LET c == providerCalls[i]
       IN  /\ Len(c.calls) = 1
           /\ c.calls[1].fn = (IF c.fn = "NewProvider" THEN "remote.New" ELSE "remote.FromFile")
           /\ ReferenceOf(c) =
                (IF c.provider = "aws" THEN "nitric/aws@" \o DefaultNitricVersion
                 ELSE IF c.provider = "azure" THEN "nitric/azure@" \o DefaultNitricVersion
                 ELSE IF c.provider = "gcp" THEN "nitric/gcp@" \o DefaultNitricVersion
                 ELSE c.provider)
           /\ c.calls[1].args = <<"cfc", c.name, ReferenceOf(c), "envMap", "opts">>
  /\ \A i, j \in 1..Len(providerCalls) :
       providerCalls[i].provider = providerCalls[j].provider =>
         ReferenceOf(providerCalls[i]) = ReferenceOf(providerCalls[j])

\* C20 witness: NewProvider and then ProviderFromFile were called for azure
\* and both handed on nitric/azure@v0.0.1.
C20_Witness ==
  /\ Len(providerCalls) = 2
  /\ providerCalls[1].fn = "NewProvider" /\ providerCalls[2].fn = "ProviderFromFile"
  /\ providerCalls[1].provider = "azure" /\ providerCalls[2].provider = "azure"
  /\ ReferenceOf(providerCalls[1]) = "nitric/azure@v0.0.1"
  /\ ReferenceOf(providerCalls[2]) = "nitric/azure@v0.0.1"

(***************************************************************************)
(* Properties of the stack helpers (checked under SpecStack).              *)
(***************************************************************************)
\* C21: VersionString returns the function's Version when it is not empty
\* and the default membrane version otherwise; ImageTagName returns the
\* function's Tag when it is not empty, and otherwise
\* <stack name>-<function name>, followed by -<provider> exactly when the
\* provider is not empty.
C21_VersionAndImageTag ==
  /\ stackRet.fn = "VersionString" =>
        /\ function.Version # "" => stackRet.val = function.Version
        /\ function.Version = "" => stackRet.val = "v0.0.1-rc.3"
  /\ stackRet.fn = "ImageTagName" =>
        /\ function.Tag # "" => stackRet.val = function.Tag
        /\ function.Tag = "" /\ stackRet.provider = "" =>
              stackRet.val = stack.Name \o "-" \o function.name
        /\ function.Tag = "" /\ stackRet.provider # "" =>
              stackRet.val = stack.Name \o "-" \o function.name \o "-" \o stackRet.provider

\* C21 witness: ImageTagName of function f of stack shop, which has no Tag,
\* was called without a provider and returned shop-f.
C21_Witness ==
  /\ stackRet.fn = "ImageTagName"
  /\ function.Tag = "" /\ stackRet.provider = ""
  /\ stackRet.val = "shop-f"

(***************************************************************************)
(* Properties of the command aliases (checked under SpecAlias).            *)
(***************************************************************************)
\* C22: the alias command registered under a name executes the root command
\* again with the program, the words of the alias string configured for
\* that name and the user's arguments, also when several aliases are
\* configured.
C22_AliasRunsOwnString ==
  aliasRun # NoAliasRun =>
    aliasRun.executed =
      <<"nitric">> \o AliasWords(StringsSplit(aliases[aliasRun.name], " ")) \o aliasRun.args

(***************************************************************************)
(* Properties of one call of podman Build (checked under                   *)
(* FairSpecBuildProc).                                                     *)
(***************************************************************************)
\* C23: after Build has returned, the goroutine that prints the
\* subprocess's output eventually ends (none is left blocked on the pipe).
C23_PrintWorkerTerminates ==
  (buildPc = "returned") ~> (printer \in {"none", "done"})

\* Build returns once the subprocess has exited.
BuildReturnsAfterExit == (subproc = "exited") ~> (buildPc = "returned")

\* Build returns the subprocess's exit status, after all output was printed.
BuildReturnsExitStatus ==
  buildPc = "returned" /\ subproc = "exited" =>
    /\ buildRet = exitStatus
    /\ pendingOut = 0 /\ osPipe = 0 /\ copier = "done"

(***************************************************************************)
(* Properties of azure Deploy (checked under SpecAzureDeploy).             *)
(***************************************************************************)
\* C24: Deploy never reads through a nil ContainerApps: for a project with
\* no functions and no containers the subscriptions, schedules and api
\* gateway steps run without a nil dereference.
C24_NoNilContainerApps ==
  deployRet.called /\ proj.Functions = {} /\ proj.Containers = {} =>
    deployRet.panic = ""

\* With a function or a container, Deploy ends by returning.
DeployReturnsWithApps ==
  deployRet.called /\ (proj.Functions # {} \/ proj.Containers # {}) => deployRet.panic = ""

(***************************************************************************)
(* Properties of azure Validate (checked under SpecAzureValidate).         *)
(***************************************************************************)
RegionOk == sc.Region # "" /\ sc.Region \in
  {"canadacentral", "eastasia", "eastus", "eastus2", "germanywestcentral", "japaneast",
   "northeurope", "uksouth", "westeurope", "westus"}
HasOrg == "org" \in DOMAIN sc.Extra
HasAdminEmail == "adminemail" \in DOMAIN sc.Extra
Violations ==
  (IF RegionOk THEN 0 ELSE 1) + (IF HasOrg THEN 0 ELSE 1) + (IF HasAdminEmail THEN 0 ELSE 1)

ValidateAsClaimed ==
  /\ validateRet.panic = ""
  /\ validateRet.isNil <=> (RegionOk /\ HasOrg /\ HasAdminEmail)
  /\ Len(validateRet.errs) = Violations
  /\ HasOrg => azOrg = sc.Extra["org"].val
  /\ ~HasOrg => azOrg = ""
  /\ HasAdminEmail => azAdminEmail = sc.Extra["adminemail"].val
  /\ ~HasAdminEmail => azAdminEmail = ""

\* C25: Validate returns nil exactly when the region is set and supported
\* and the extra configuration has the keys org and adminemail; otherwise
\* it returns one error for each requirement violated; org and adminEmail
\* are stored exactly when their key is present.
C25_ValidateReportsEveryViolation == validateRet.called => ValidateAsClaimed

\* The same, for extra configuration whose values are strings.
ValidateOfStringExtras ==
  validateRet.called /\ (\A k \in DOMAIN sc.Extra : sc.Extra[k].type = "string") =>
    ValidateAsClaimed

(***************************************************************************)
(* Properties of the lambda health check (checked under SpecLambda).       *)
(***************************************************************************)
\* C26: the health check invokes the function at most 3 times, makes no
\* invocation after a successful one, reports healthy after a successful
\* invocation, and reports an error, and not healthy, only after 3 failed
\* invocations in a row.
C26_HealthCheckRetries ==
  /\ Len(invokes) <= 3
  /\ \A i \in 1..(Len(invokes) - 1) : invokes[i].err # "nil"
  /\ \A i \in 1..Len(invokes) : invokes[i].FunctionName = arn
  /\ healthRet.done =>
        /\ invokes # <<>>
        /\ invokes[Len(invokes)].err = "nil" => healthRet.healthy /\ healthRet.err = <<>>
        /\ invokes[Len(invokes)].err # "nil" =>
              /\ ~healthRet.healthy
              /\ healthRet.err # <<>>
              /\ Len(invokes) = 3
              /\ \A i \in 1..3 : invokes[i].err # "nil"

\* C26 witness: the first invocation failed, the second succeeded, and the
\* health check reported healthy after these two.
C26_Witness ==
  /\ healthRet.done /\ healthRet.healthy
  /\ Len(invokes) = 2
  /\ invokes[1].err = "TooManyRequests"
  /\ invokes[2].err = "nil"

(***************************************************************************)
(* Properties of the configuration defaults (checked under SpecConfig).    *)
(***************************************************************************)
HasDefaults(cfg) ==
  /\ "new" \in DOMAIN cfg.aliases
  /\ "local" \in DOMAIN cfg.targets
  /\ cfg.build_timeout.kind = "duration" /\ cfg.build_timeout.val # 0

\* The aliases and targets the user set are in the configuration unchanged,
\* and nothing was added but the alias new and the target local.
UserMapsKept ==
  /\ \A k \in DOMAIN userConfig.aliases : viperConfig.aliases[k] = userConfig.aliases[k]
  /\ \A k \in DOMAIN userConfig.targets : viperConfig.targets[k] = userConfig.targets[k]
  /\ DOMAIN viperConfig.aliases = DOMAIN userConfig.aliases \cup {"new"}
  /\ DOMAIN viperConfig.targets = DOMAIN userConfig.targets \cup {"local"}
  /\ "new" \notin DOMAIN userConfig.aliases => viperConfig.aliases["new"] = "stack create"
  /\ "local" \notin DOMAIN userConfig.targets => viperConfig.targets["local"] = "provider: local"

WritesOnlyForMissingDefaults ==
  /\ runWrote[1] <=> ~HasDefaults(userConfig)
  /\ \A i \in 2..Len(runWrote) : ~runWrote[i]

\* C27: after a run of ensureConfigDefaults the configuration has an alias
\* new, a target local and a build_timeout that is not zero; the aliases and
\* targets the user set are unchanged, and so is a build_timeout the user
\* set to a duration that is not zero, while one that reads as zero is
\* replaced by 5 minutes; the run writes the configuration only when a
\* default was missing, and a run after the first writes nothing.
C27_DefaultsOnceAndKeepsUserValues ==
  runWrote # <<>> =>
    /\ HasDefaults(viperConfig)
    /\ UserMapsKept
    /\ GetDuration(userConfig.build_timeout) # 0 =>
          viperConfig.build_timeout = userConfig.build_timeout
    /\ GetDuration(userConfig.build_timeout) = 0 =>
          viperConfig.build_timeout = [kind |-> "duration", val |-> 300]
    /\ WritesOnlyForMissingDefaults

\* C27 as stated: whatever the user set for build_timeout is unchanged too.
C27_AsStated ==
  runWrote # <<>> =>
    /\ HasDefaults(viperConfig)
    /\ UserMapsKept
    /\ userConfig.build_timeout.kind # "unset" =>
          viperConfig.build_timeout = userConfig.build_timeout
    /\ WritesOnlyForMissingDefaults

\* C27 witness: the user set the alias new to run and nothing else; the
\* first run added the target and the timeout, kept the alias and wrote,
\* and the second run wrote nothing.
C27_Witness ==
  /\ Len(runWrote) = 2
  /\ runWrote = <<TRUE, FALSE>>
  /\ userConfig.aliases = [k \in {"new"} |-> "run"]
  /\ userConfig.targets = <<>>
  /\ viperConfig.aliases = userConfig.aliases
  /\ "local" \in DOMAIN viperConfig.targets
  /\ configFile = viperConfig

(***************************************************************************)
(* Properties of newCloudRunner (checked under SpecGcp).                   *)
(***************************************************************************)
AccountsCreated ==
  {i \in 1..Len(runnerRet.created) : runnerRet.created[i].fn = "serviceaccount.NewAccount"}

\* C28: the account id of the service account that invokes the function for
\* its subscriptions is the first 22 characters of the function name
\* followed by subacct, which is at most 30 characters; the account is
\* created only for a function with at least one topic trigger.
C28_AccountIdFitsAndOnlyForTopics ==
  \A i \in AccountsCreated :
    LET id == runnerRet.created[i].AccountId
        kept == IF Len(runnerName) < 22 THEN Len(runnerName) ELSE 22
    IN  /\ Len(id) <= 30
        /\ id = SubSeq(runnerName, 1, kept) \o <<"s", "u", "b", "a", "c", "c", "t">>
        /\ Len(triggerTopics) >= 1

\* C28 witness: for a name of 24 characters and one topic trigger the
\* account was created with an id of 29 characters.
C28_Witness ==
  /\ Len(runnerName) = 24
  /\ Len(triggerTopics) = 1
  /\ \E i \in AccountsCreated : Len(runnerRet.created[i].AccountId) = 29
====
